---- MODULE Spec2Model ----
(***************************************************************************)
(* Christmas wishlist: the item matcher / merger and the visibility and    *)
(* permission rules of app/routes/wishlist.py, app/routes/auth.py,         *)
(* app/routes/main.py and app/models.py, as a state machine over the       *)
(* persisted tables (users, proxy_wishlists, wishlist_delegates,           *)
(* wishlist_items, purchases).  Every request handler is one action; the  *)
(* section on concurrent requests splits claim_item and the manual merge   *)
(* into their queries and their commit, as several workers run them.       *)
(*                                                                         *)
(* Strings are sequences of one-character strings, so that lower(),        *)
(* rstrip("/"), split() and SequenceMatcher work on them as in Python.     *)
(* Python's None is the value None for text fields, PriceNone for price    *)
(* and NULL for foreign keys.  The wishlist_changes digest log is written  *)
(* by some handlers and read by none of them; it is left out.              *)
(***************************************************************************)
EXTENDS Integers, Sequences, FiniteSets, TLC

\* ------------------------------------------------------------------ bounds
MaxItems == 2          \* wishlist_items rows ever inserted
MaxClaims == 2         \* purchases rows ever inserted
MaxProxies == 1        \* proxy_wishlists rows ever inserted
MaxRegistrations == 1  \* accounts registered after the initial ones
MaxQty == 2            \* largest quantity typed into a form
MaxRequests == 2       \* requests handled by concurrent workers

\* ------------------------------------------------------- encoding of None
NULL == 0
PriceNone == -1
None == <<"None">>

InitialUsers == {1, 2, 3}
AdminUsers == {1}

\* ---------------------------------------------------------- small helpers
RECURSIVE SumQty(_)
SumQty(S) ==
    IF S = {} THEN 0
    ELSE LET c == CHOOSE x \in S : TRUE IN c.quantity + SumQty(S \ {c})

Max(a, b) == IF a >= b THEN a ELSE b

\* Python truthiness of a text field / of a price
TruthyText(s) == s # None /\ s # <<>>
TruthyPrice(p) == p # PriceNone /\ p # 0

\* ------------------------------------------------------- str.lower()
UpperChars == <<"A","B","C","D","E","F","G","H","I","J","K","L","M",
                "N","O","P","Q","R","S","T","U","V","W","X","Y","Z">>
LowerChars == <<"a","b","c","d","e","f","g","h","i","j","k","l","m",
                "n","o","p","q","r","s","t","u","v","w","x","y","z">>

LowerChar(c) ==
    IF \E k \in 1..26 : UpperChars[k] = c
    THEN LowerChars[CHOOSE k \in 1..26 : UpperChars[k] = c]
    ELSE c

Lower(s) == [k \in 1..Len(s) |-> LowerChar(s[k])]

\* ------------------------------------------------------- str.rstrip("/")
RECURSIVE RStripSlash(_)
RStripSlash(s) ==
    IF Len(s) > 0 /\ s[Len(s)] = "/" THEN RStripSlash(SubSeq(s, 1, Len(s) - 1))
    ELSE s

\* ------------------------------------- difflib.SequenceMatcher(None, a, b)
\* length of the common run of a[i..ahi] and b[j..bhi]
RECURSIVE CommonLen(_, _, _, _, _, _)
CommonLen(a, b, i, j, ahi, bhi) ==
    IF i > ahi \/ j > bhi THEN 0
    ELSE IF a[i] # b[j] THEN 0
    ELSE 1 + CommonLen(a, b, i + 1, j + 1, ahi, bhi)

\* find_longest_match: the longest block, the earliest in a, then in b
FindLongestMatch(a, b, alo, ahi, blo, bhi) ==
    LET P == (alo..ahi) \X (blo..bhi)
        size(p) == CommonLen(a, b, p[1], p[2], ahi, bhi)
        best == CHOOSE p \in P :
                    \A q \in P :
                        \/ size(p) > size(q)
                        \/ /\ size(p) = size(q)
                           /\ \/ p[1] < q[1]
                              \/ p[1] = q[1] /\ p[2] <= q[2]
    IN [i |-> best[1], j |-> best[2], k |-> size(best)]

\* get_matching_blocks: total size of the matching blocks
RECURSIVE MatchingSize(_, _, _, _, _, _)
MatchingSize(a, b, alo, ahi, blo, bhi) ==
    IF alo > ahi \/ blo > bhi THEN 0
    ELSE LET m == FindLongestMatch(a, b, alo, ahi, blo, bhi)
         IN IF m.k = 0 THEN 0
            ELSE m.k + MatchingSize(a, b, alo, m.i - 1, blo, m.j - 1)
                     + MatchingSize(a, b, m.i + m.k, ahi, m.j + m.k, bhi)

\* ratio() >= pct / 100, with ratio() = 2.0 * matches / (len(a) + len(b))
RatioAtLeast(a, b, pct) ==
    IF Len(a) + Len(b) = 0 THEN TRUE
    ELSE 200 * MatchingSize(a, b, 1, Len(a), 1, Len(b)) >= pct * (Len(a) + Len(b))

\* the character U+2013 (en dash), written as a token
EnDash == "ndash"

\* ---------- name.replace(",", "").replace(EnDash, " ").replace("-", " ")
RECURSIVE ReplaceSeparators(_)
ReplaceSeparators(s) ==
    IF s = <<>> THEN <<>>
    ELSE IF Head(s) = "," THEN ReplaceSeparators(Tail(s))
    ELSE IF Head(s) \in {EnDash, "-"} THEN <<" ">> \o ReplaceSeparators(Tail(s))
    ELSE <<Head(s)>> \o ReplaceSeparators(Tail(s))

\* str.split(): the maximal runs of non-blank characters
RECURSIVE SplitWords(_, _)
SplitWords(s, cur) ==
    IF s = <<>> THEN (IF cur = <<>> THEN {} ELSE {cur})
    ELSE IF Head(s) = " "
         THEN (IF cur = <<>> THEN {} ELSE {cur}) \cup SplitWords(Tail(s), <<>>)
         ELSE SplitWords(Tail(s), Append(cur, Head(s)))

SignificantWords(name) ==
    {Lower(w) : w \in {x \in SplitWords(ReplaceSeparators(name), <<>>) : Len(x) >= 4}}

NameThresholdAdd == 75

\* Method 1 comparing the urls as they are written
url_match_CaseSensitive(item1, item2) ==
    /\ TruthyText(item1.url) /\ TruthyText(item2.url)
    /\ RStripSlash(item1.url) = RStripSlash(item2.url)

\* Method 1 of similar_items: exact URL match
url_match(item1, item2) ==
    /\ TruthyText(item1.url) /\ TruthyText(item2.url)
    /\ RStripSlash(Lower(item1.url)) = RStripSlash(Lower(item2.url))

\* similar_items(item1, item2, threshold), the threshold in hundredths
similar_items(item1, item2, threshold) ==
    \/ url_match(item1, item2)
    \/ /\ TruthyText(item1.name) /\ TruthyText(item2.name)
       /\ \/ RatioAtLeast(Lower(item1.name), Lower(item2.name), threshold)
          \/ LET words1 == SignificantWords(item1.name)
                 words2 == SignificantWords(item2.name)
                 intersection == words1 \cap words2
                 union == words1 \cup words2
             IN /\ words1 # {} /\ words2 # {}
                /\ 5 * Cardinality(intersection) >= 2 * Cardinality(union)
                /\ Cardinality(intersection) >= 3


\* ------------------------------------------------------------ form inputs
\* WishlistItemForm data that passes validation (name required,
\* quantity >= 1, price empty or >= 0); an optional field left out of the
\* request is None, one submitted blank is the empty string.
FormLego ==
    [name |-> <<"l","e","g","o">>, url |-> None, description |-> None,
     price |-> PriceNone, image_url |-> None, quantity |-> 1]
FormBook ==
    [name |-> <<"b","o","o","k">>, url |-> <<"u","/">>, description |-> <<"d">>,
     price |-> 5, image_url |-> <<"i">>, quantity |-> MaxQty]
FormLegos ==
    [name |-> <<"L","e","g","o","s">>, url |-> <<>>, description |-> <<>>,
     price |-> 0, image_url |-> <<>>, quantity |-> 1]
FormInputs == {FormLego, FormBook}

\* PurchaseForm data that passes validation (quantity >= 1)
ClaimQuantities == 1..MaxQty

\* -------------------------------------------------------------- the state
VARIABLES
    users,        \* users rows: [id, email, is_admin]
    proxies,      \* proxy_wishlists rows: [id, email, created_by_id]
    delegates,    \* wishlist_delegates rows
    items,        \* wishlist_items rows
    claims,       \* purchases rows
    nextItemId,   \* next wishlist_items.id
    nextClaimId,  \* next purchases.id
    nextProxyId,  \* next proxy_wishlists.id
    nextUserId,   \* next users.id
    response,     \* what the last request returned
    requests,     \* requests of concurrent workers: in flight, or answered
    session       \* the keys of one browser session, NULL for an absent key

vars == <<users, proxies, delegates, items, claims,
          nextItemId, nextClaimId, nextProxyId, nextUserId, response, requests,
          session>>
ids == <<nextItemId, nextClaimId, nextProxyId, nextUserId>>
store == <<users, proxies, delegates, items, claims>>

UserIds == {u.id : u \in users}
ItemIds == {i.id : i \in items}
ClaimIds == {c.id : c \in claims}
ProxyIds == {p.id : p \in proxies}

User(id) == CHOOSE u \in users : u.id = id
Item(id) == CHOOSE i \in items : i.id = id
Claim(id) == CHOOSE c \in claims : c.id = id
Proxy(id) == CHOOSE p \in proxies : p.id = id

\* WishlistItem.purchases
purchases(I, C, item_id) == {c \in C : c.wishlist_item_id = item_id}

\* WishlistItem.total_purchased
total_purchased(C, item_id) == SumQty({c \in C : c.wishlist_item_id = item_id})

\* WishlistItem.is_fully_purchased
is_fully_purchased(C, item) == total_purchased(C, item.id) >= item.quantity

\* a flag that needs an owning account to compare the adder with
is_custom_gift_OwnedListOnly(item) ==
    item.user_id # NULL /\ item.added_by_id # NULL /\ item.added_by_id # item.user_id

\* WishlistItem.is_custom_gift
is_custom_gift(item) == item.added_by_id # NULL /\ item.added_by_id # item.user_id

\* a response: the handler, its outcome, the message it flashes or returns,
\* and for a page the rows it renders
NoResponse == [op |-> "none", status |-> "none", flash |-> "none", shown |-> <<>>]

Resp(op, status, flash) == [op |-> op, status |-> status, flash |-> flash, shown |-> <<>>]

NewItem(id, user_id, proxy_id, added_by_id, f) ==
    [id |-> id, user_id |-> user_id, proxy_wishlist_id |-> proxy_id,
     added_by_id |-> added_by_id, name |-> f.name, url |-> f.url,
     description |-> f.description, price |-> f.price,
     image_url |-> f.image_url, quantity |-> f.quantity]

\* a purchase row that always takes the column default of quantity
NewClaim_DefaultQuantity(id, item_id, user_id, quantity) ==
    [id |-> id, wishlist_item_id |-> item_id, purchased_by_id |-> user_id,
     quantity |-> 1, purchased |-> FALSE, received |-> FALSE, wrapped |-> FALSE]

NewClaim(id, item_id, user_id, quantity) ==
    [id |-> id, wishlist_item_id |-> item_id, purchased_by_id |-> user_id,
     quantity |-> quantity, purchased |-> FALSE, received |-> FALSE, wrapped |-> FALSE]

\* a session without keys
NoSession == [user_id |-> NULL, original_admin_id |-> NULL, impersonate_user_id |-> NULL]

Init ==
    /\ users = {[id |-> u, email |-> <<"a", ToString(u)>>, is_admin |-> (u \in AdminUsers)] : u \in InitialUsers}
    /\ proxies = {}
    /\ delegates = {}
    /\ items = {}
    /\ claims = {}
    /\ nextItemId = 1
    /\ nextClaimId = 1
    /\ nextProxyId = 1
    /\ nextUserId = 4
    /\ response = NoResponse
    /\ requests = {}
    /\ session = NoSession

\* db.session.delete(item): the row and, by the delete-orphan cascade of
\* WishlistItem.purchases, the purchases that reference it
DeleteItem(I, C, item_id) ==
    [items |-> {i \in I : i.id # item_id},
     claims |-> {c \in C : c.wishlist_item_id # item_id}]

\* a merge that leaves the purchases of new_item where they are
TransferPurchases_Skipped(C, new_id, existing_id) == C

\* the purchase transfer of merge_items: every purchase of new_item is
\* pointed at existing_item
TransferPurchases(C, new_id, existing_id) ==
    {IF c.wishlist_item_id = new_id
     THEN [c EXCEPT !.wishlist_item_id = existing_id] ELSE c : c \in C}

\* merge_items(existing_item, new_item) on the rows I, C
merge_items(I, C, existing_id, new_id) ==
    LET existing_item == CHOOSE i \in I : i.id = existing_id
        new_item == CHOOSE i \in I : i.id = new_id
        merged ==
            [existing_item EXCEPT
                !.description = IF TruthyText(new_item.description) /\ ~TruthyText(@)
                                THEN new_item.description ELSE @,
                !.price = IF TruthyPrice(new_item.price) /\ ~TruthyPrice(@)
                          THEN new_item.price ELSE @,
                !.image_url = IF TruthyText(new_item.image_url) /\ ~TruthyText(@)
                              THEN new_item.image_url ELSE @,
                !.url = IF TruthyText(new_item.url) /\ ~TruthyText(@)
                        THEN new_item.url ELSE @,
                !.quantity = IF new_item.quantity > @ THEN new_item.quantity ELSE @]
        updated == {IF i.id = existing_id THEN merged ELSE i : i \in I}
        moved == TransferPurchases(C, new_id, existing_id)
    IN DeleteItem(updated, moved, new_id)


\* ------------------------------------------------------- wishlist routes
\* the filter without its test of added_by_id
OwnerFilter_AllOfList(I, u) == {x \in I : x.user_id = u}

\* the owner's filter of my_list, my_list_table and index
OwnerFilter(I, u) ==
    {i \in {x \in I : x.user_id = u} : i.added_by_id = NULL \/ i.added_by_id = u}

\* order_by(created_at.desc()): ids are handed out in creation order
RECURSIVE OrderDesc(_)
OrderDesc(S) ==
    IF S = {} THEN <<>>
    ELSE LET m == CHOOSE x \in S : \A y \in S : y.id <= x.id
         IN <<m>> \o OrderDesc(S \ {m})

\* what wishlist/my_list.html renders for one item of the owner's list
MyListCard(C, item) ==
    [id |-> item.id, name |-> item.name, description |-> item.description,
     price |-> item.price, image_url |-> item.image_url, url |-> item.url,
     quantity |-> item.quantity,
     status |-> IF is_fully_purchased(C, item)
                THEN [badge |-> "Fully Purchased", purchased |-> 0]
                ELSE IF total_purchased(C, item.id) > 0
                     THEN [badge |-> "n/m Purchased", purchased |-> total_purchased(C, item.id)]
                     ELSE [badge |-> "", purchased |-> 0]]

MyListPage(I, C, u) ==
    LET rows == OrderDesc(OwnerFilter(I, u))
    IN [k \in 1..Len(rows) |-> MyListCard(C, rows[k])]

\* GET /wishlist/my-list
my_list(u) ==
    /\ response' = [Resp("my_list", "ok", "none") EXCEPT
                        !.shown = MyListPage(items, claims, u)]
    /\ UNCHANGED <<users, proxies, delegates, items, claims, nextItemId, nextClaimId, nextProxyId, nextUserId, requests, session>>

\* what wishlist/my_list_table.html renders for one item: the editable
\* fields, no status column
MyListTableRow(item) ==
    [id |-> item.id, name |-> item.name, description |-> item.description,
     price |-> item.price, url |-> item.url, quantity |-> item.quantity]

\* GET /wishlist/my-list/table
my_list_table(u) ==
    /\ response' = [Resp("my_list_table", "ok", "none") EXCEPT
                        !.shown = LET rows == OrderDesc(OwnerFilter(items, u))
                                  IN [k \in 1..Len(rows) |-> MyListTableRow(rows[k])]]
    /\ UNCHANGED <<users, proxies, delegates, items, claims, nextItemId, nextClaimId, nextProxyId, nextUserId, requests, session>>

\* GET / of a logged-in user: my_items_count
index(u) ==
    /\ response' = [Resp("index", "ok", "none") EXCEPT
                        !.shown = <<[my_items_count |-> Cardinality(OwnerFilter(items, u))]>>]
    /\ UNCHANGED <<users, proxies, delegates, items, claims, nextItemId, nextClaimId, nextProxyId, nextUserId, requests, session>>

\* a direction test under which the pre-existing item is always kept
is_custom_gift_from_other_Never(existing_item, u) == FALSE

\* is_custom_gift_from_other of add_item and add_item_from_scraped_data
is_custom_gift_from_other(existing_item, u) ==
    existing_item.added_by_id # NULL /\ existing_item.added_by_id # u

\* the add flow shared by add_item and add_item_from_scraped_data on the rows
\* I, C: insert the new row with the given id, then merge it with the first
\* similar row of the actor's list; one outcome per row the query may
\* return first
AddOutcomes(I, C, op, u, f, id) ==
    LET item == NewItem(id, u, NULL, NULL, f)
        withNew == I \cup {item}
        all_user_items == {i \in I : i.user_id = u /\ i.id # item.id}
        similar == {i \in all_user_items : similar_items(item, i, NameThresholdAdd)}
    IN IF similar = {}
       THEN {[items |-> withNew, claims |-> C, response |-> Resp(op, "ok", "added")]}
       ELSE {LET from_other == is_custom_gift_from_other(existing_item, u)
                 m == IF from_other
                      THEN merge_items(withNew, C, item.id, existing_item.id)
                      ELSE merge_items(withNew, C, existing_item.id, item.id)
             IN [items |-> m.items, claims |-> m.claims,
                 response |-> IF from_other
                              THEN Resp(op, "ok", "added")
                              ELSE Resp(op, "ok", "merged")] : existing_item \in similar}

AddWithAutoMerge(op, u, f) ==
    /\ nextItemId <= MaxItems
    /\ nextItemId' = nextItemId + 1
    /\ \E o \in AddOutcomes(items, claims, op, u, f, nextItemId) :
          /\ items' = o.items
          /\ claims' = o.claims
          /\ response' = o.response
    /\ UNCHANGED <<users, proxies, delegates, nextClaimId, nextProxyId, nextUserId, requests, session>>

\* POST /wishlist/add
add_item(u, f) == AddWithAutoMerge("add_item", u, f)

\* the item fields add_item_from_scraped_data builds from the JSON body
ScrapedForm(data) ==
    [data EXCEPT !.price = IF TruthyPrice(@) THEN @ ELSE PriceNone]

\* POST /wishlist/add-item-from-scraped-data
add_item_from_scraped_data(u, data) ==
    AddWithAutoMerge("add_item_from_scraped_data", u, ScrapedForm(data))

\* POST /wishlist/add-custom-gift/<user_id>
add_custom_gift(u, user_id, f) ==
    IF user_id = u
    THEN /\ response' = Resp("add_custom_gift", "denied", "own_list")
         /\ UNCHANGED <<users, proxies, delegates, items, claims, nextItemId, nextClaimId, nextProxyId, nextUserId, requests, session>>
    ELSE LET item == NewItem(nextItemId, user_id, NULL, u, f)
         IN /\ nextItemId <= MaxItems /\ nextClaimId <= MaxClaims
            /\ items' = items \cup {item}
            /\ claims' = claims \cup {NewClaim(nextClaimId, item.id, u, item.quantity)}
            /\ nextItemId' = nextItemId + 1
            /\ nextClaimId' = nextClaimId + 1
            /\ response' = Resp("add_custom_gift", "ok", "added")
            /\ UNCHANGED <<users, proxies, delegates, nextProxyId, nextUserId, requests, session>>

\* a self-claim check that lets the owner claim what others added
IsOwnList_OwnerAddedOnly(item, u) ==
    item.user_id # NULL /\ item.user_id = u /\ item.added_by_id \in {NULL, u}

\* claim_item: "User cannot claim their own items"
IsOwnList(item, u) == item.user_id # NULL /\ item.user_id = u

\* a remaining quantity that ignores the claims already made
Remaining_IgnoringClaims(C, item) == item.quantity

\* claim_item: remaining = item.quantity - item.total_purchased
Remaining(C, item) == item.quantity - total_purchased(C, item.id)

\* POST /wishlist/claim/<item_id>
claim_item(u, item_id, quantity) ==
    LET item == Item(item_id)
        remaining == Remaining(claims, item)
    IN IF IsOwnList(item, u)
       THEN /\ response' = Resp("claim_item", "denied", "own_item")
            /\ UNCHANGED <<users, proxies, delegates, items, claims, nextItemId, nextClaimId, nextProxyId, nextUserId, requests, session>>
       ELSE IF remaining <= 0
       THEN /\ response' = Resp("claim_item", "rejected", "fully_claimed")
            /\ UNCHANGED <<users, proxies, delegates, items, claims, nextItemId, nextClaimId, nextProxyId, nextUserId, requests, session>>
       ELSE IF quantity > remaining
       THEN /\ response' = Resp("claim_item", "rejected", "only_remaining")
            /\ UNCHANGED <<users, proxies, delegates, items, claims, nextItemId, nextClaimId, nextProxyId, nextUserId, requests, session>>
       ELSE /\ nextClaimId <= MaxClaims
            /\ claims' = claims \cup {NewClaim(nextClaimId, item.id, u, quantity)}
            /\ nextClaimId' = nextClaimId + 1
            /\ response' = Resp("claim_item", "ok", "claimed")
            /\ UNCHANGED <<users, proxies, delegates, items, nextItemId, nextProxyId, nextUserId, requests, session>>

\* POST /wishlist/unclaim/<purchase_id>
unclaim_item(u, purchase_id) ==
    LET purchase == Claim(purchase_id)
    IN IF purchase.purchased_by_id # u
       THEN /\ response' = Resp("unclaim_item", "denied", "not_yours")
            /\ UNCHANGED <<users, proxies, delegates, items, claims, nextItemId, nextClaimId, nextProxyId, nextUserId, requests, session>>
       ELSE /\ claims' = claims \ {purchase}
            /\ response' = Resp("unclaim_item", "ok", "unclaimed")
            /\ UNCHANGED <<users, proxies, delegates, items, nextItemId, nextClaimId, nextProxyId, nextUserId, requests, session>>

\* the JSON body of update_claim_status: per key, absent or a value that
\* bool() turns into TRUE or FALSE
StatusInputs ==
    {[purchased |-> "true", received |-> "absent", wrapped |-> "absent"],
     [purchased |-> "false", received |-> "true", wrapped |-> "true"]}

\* a flag that a request without its key resets
SetFlag_AbsentIsFalse(old, v) == (v = "true")

SetFlag(old, v) == IF v = "absent" THEN old ELSE (v = "true")

\* POST /wishlist/update-claim-status/<claim_id>
update_claim_status(u, claim_id, data) ==
    LET claim == Claim(claim_id)
    IN IF claim.purchased_by_id # u
       THEN /\ response' = Resp("update_claim_status", "denied", "unauthorized")
            /\ UNCHANGED <<users, proxies, delegates, items, claims, nextItemId, nextClaimId, nextProxyId, nextUserId, requests, session>>
       ELSE /\ claims' = (claims \ {claim}) \cup
                           {[claim EXCEPT !.purchased = SetFlag(@, data.purchased),
                                          !.received = SetFlag(@, data.received),
                                          !.wrapped = SetFlag(@, data.wrapped)]}
            /\ response' = Resp("update_claim_status", "ok", "updated")
            /\ UNCHANGED <<users, proxies, delegates, items, nextItemId, nextClaimId, nextProxyId, nextUserId, requests, session>>

\* ----------------------------------------------------------- proxy lists
\* ProxyWishlistForm data: the optional contact email
ProxyEmailInputs == {None, <<"J","@","x">>}

\* POST /wishlist/create-proxy-wishlist
create_proxy_wishlist(u, email) ==
    /\ nextProxyId <= MaxProxies
    /\ proxies' = proxies \cup
          {[id |-> nextProxyId,
            email |-> IF TruthyText(email) THEN Lower(email) ELSE None,
            created_by_id |-> u]}
    /\ nextProxyId' = nextProxyId + 1
    /\ response' = Resp("create_proxy_wishlist", "ok", "created")
    /\ UNCHANGED <<users, delegates, items, claims, nextItemId, nextClaimId, nextUserId, requests, session>>

\* POST /wishlist/add-to-proxy/<proxy_id>
add_to_proxy_wishlist(u, proxy_id, f) ==
    LET item == NewItem(nextItemId, NULL, proxy_id, u, f)
    IN /\ nextItemId <= MaxItems /\ nextClaimId <= MaxClaims
       /\ items' = items \cup {item}
       /\ claims' = claims \cup {NewClaim(nextClaimId, item.id, u, item.quantity)}
       /\ nextItemId' = nextItemId + 1
       /\ nextClaimId' = nextClaimId + 1
       /\ response' = Resp("add_to_proxy_wishlist", "ok", "added")
       /\ UNCHANGED <<users, proxies, delegates, nextProxyId, nextUserId, requests, session>>

\* ----------------------------------------------------------- registration
NameThresholdRegister == 75

\* RegistrationForm data: the email typed in
RegisterEmailInputs == {<<"j","@","X">>, <<"n","@","x">>}

\* a transfer that forgets who added the item
TransferToUser_ClearAdder(item, user_id) ==
    [item EXCEPT !.proxy_wishlist_id = NULL, !.user_id = user_id, !.added_by_id = NULL]

\* a transfer that leaves the reference to the proxy list in place
TransferToUser_KeepProxy(item, user_id) == [item EXCEPT !.user_id = user_id]

\* register, 'No match found - transfer to user's wishlist'; added_by_id is
\* kept
TransferToUser(item, user_id) ==
    [item EXCEPT !.proxy_wishlist_id = NULL, !.user_id = user_id]

\* the loop with every transferred item counted among existing_items, so
\* that a later proxy item similar to it is merged into it
RECURSIVE ConvertProxyItems_MergeAmongProxyItems(_, _, _, _, _)
ConvertProxyItems_MergeAmongProxyItems(I, C, pending, existing_ids, user_id) ==
    IF pending = {} THEN [items |-> I, claims |-> C]
    ELSE LET pid == CHOOSE x \in pending : \A y \in pending : x <= y
             proxy_item == CHOOSE i \in I : i.id = pid
             matches == {e \in existing_ids :
                            similar_items(proxy_item, CHOOSE i \in I : i.id = e,
                                          NameThresholdRegister)}
         IN IF matches # {}
            THEN LET e == CHOOSE x \in matches : \A y \in matches : x <= y
                     m == merge_items(I, C, e, pid)
                 IN ConvertProxyItems_MergeAmongProxyItems(
                        m.items, m.claims, pending \ {pid}, existing_ids, user_id)
            ELSE ConvertProxyItems_MergeAmongProxyItems(
                     {IF i.id = pid
                      THEN [i EXCEPT !.proxy_wishlist_id = NULL, !.user_id = user_id]
                      ELSE i : i \in I},
                     C, pending \ {pid}, existing_ids \cup {pid}, user_id)

\* the loop of register over proxy_items, in id order: an item similar to one
\* of existing_items is merged into it, any other is moved to the account
RECURSIVE ConvertProxyItems(_, _, _, _, _)
ConvertProxyItems(I, C, pending, existing_ids, user_id) ==
    IF pending = {} THEN [items |-> I, claims |-> C]
    ELSE LET pid == CHOOSE x \in pending : \A y \in pending : x <= y
             proxy_item == CHOOSE i \in I : i.id = pid
             matches == {e \in existing_ids :
                            similar_items(proxy_item, CHOOSE i \in I : i.id = e,
                                          NameThresholdRegister)}
         IN IF matches # {}
            THEN LET e == CHOOSE x \in matches : \A y \in matches : x <= y
                     m == merge_items(I, C, e, pid)
                 IN ConvertProxyItems(m.items, m.claims, pending \ {pid}, existing_ids, user_id)
            ELSE ConvertProxyItems(
                     {IF i.id = pid THEN TransferToUser(i, user_id) ELSE i : i \in I},
                     C, pending \ {pid}, existing_ids, user_id)

\* POST /auth/register, the email form, by a visitor who is not logged in
register(email) ==
    LET user_email == Lower(email)
        user == [id |-> nextUserId, email |-> user_email, is_admin |-> FALSE]
        matching == {p \in proxies : p.email = user_email}
    IN /\ nextUserId <= Cardinality(InitialUsers) + MaxRegistrations
       /\ \A u \in users : u.email # user_email
       /\ users' = users \cup {user}
       /\ nextUserId' = nextUserId + 1
       /\ IF matching = {}
          THEN /\ UNCHANGED <<proxies, delegates, items, claims>>
               /\ response' = Resp("register", "ok", "registered")
          ELSE \E proxy \in matching :
                 LET proxy_items == {i.id : i \in {x \in items : x.proxy_wishlist_id = proxy.id}}
                     existing_items == {i.id : i \in {x \in items : x.user_id = user.id}}
                     m == ConvertProxyItems(items, claims, proxy_items, existing_items, user.id)
                 IN /\ items' = m.items
                    /\ claims' = m.claims
                    /\ proxies' = proxies \ {proxy}
                    /\ delegates' = {d \in delegates : d.proxy_wishlist_id # proxy.id}
                    /\ response' = Resp("register", "ok", "converted")
       /\ UNCHANGED <<nextItemId, nextClaimId, nextProxyId, requests, session>>

\* a same-list check that passes when either reference agrees
SameWishlist_EitherReference(source_item, target_item) ==
    ~ (/\ source_item.user_id # target_item.user_id
       /\ source_item.proxy_wishlist_id # target_item.proxy_wishlist_id)

\* the same-list check of merge_items_manual
SameWishlist(source_item, target_item) ==
    ~ (\/ source_item.user_id # target_item.user_id
       \/ source_item.proxy_wishlist_id # target_item.proxy_wishlist_id)

\* POST /wishlist/merge-items
merge_items_manual(u, source_item_id, target_item_id) ==
    LET source_item == Item(source_item_id)
        target_item == Item(target_item_id)
    IN IF ~SameWishlist(source_item, target_item)
       THEN /\ response' = Resp("merge_items_manual", "rejected", "same_wishlist")
            /\ UNCHANGED <<users, proxies, delegates, items, claims, nextItemId, nextClaimId, nextProxyId, nextUserId, requests, session>>
       ELSE LET m == merge_items(items, claims, target_item_id, source_item_id)
            IN /\ items' = m.items
               /\ claims' = m.claims
               /\ response' = Resp("merge_items_manual", "ok", "merged")
               /\ UNCHANGED <<users, proxies, delegates, nextItemId, nextClaimId, nextProxyId, nextUserId, requests, session>>

\* ------------------------------------------------------- specifications
\* the roles the initial accounts play in the bounded runs
ListOwners == {2}
GiftGivers == {3}
GrantHolders == {2}
NoEmail == {None}

\* add, custom gift, claim, unclaim and manual merge
NextCore ==
    \/ \E u \in ListOwners, f \in FormInputs : add_item(u, f)
    \/ \E u \in UserIds \ ListOwners, t \in ListOwners, f \in FormInputs : add_custom_gift(u, t, f)
    \/ \E u \in UserIds, i \in ItemIds, q \in ClaimQuantities : claim_item(u, i, q)
    \/ \E u \in UserIds, c \in ClaimIds : unclaim_item(u, c)
    \/ \E u \in GiftGivers, s \in ItemIds, t \in ItemIds : merge_items_manual(u, s, t)

SpecCore == Init /\ [][NextCore]_vars

\* one list, its owner adding items and the others adding custom gifts,
\* claiming, marking progress and merging
MergeOwners == {1}

NextMerge ==
    \/ \E o \in MergeOwners, f \in FormInputs : add_item(o, f)
    \/ \E u \in GiftGivers, o \in MergeOwners, f \in FormInputs : add_custom_gift(u, o, f)
    \/ \E u \in UserIds \ MergeOwners, i \in ItemIds, q \in ClaimQuantities : claim_item(u, i, q)
    \/ \E u \in UserIds \ MergeOwners, c \in ClaimIds, d \in {x \in StatusInputs : x.wrapped = "true"} :
          update_claim_status(u, c, d)
    \/ \E u \in GiftGivers, s \in ItemIds, t \in ItemIds : merge_items_manual(u, s, t)

SpecMerge == Init /\ [][NextMerge]_vars

\* two lists of accounts and the proxy lists, with custom gifts and merges
NextLists ==
    \/ \E u \in InitialUsers \ GiftGivers, f \in FormInputs : add_item(u, f)
    \/ \E u \in GiftGivers, e \in NoEmail : create_proxy_wishlist(u, e)
    \/ \E u \in GiftGivers, p \in ProxyIds, f \in FormInputs :
          add_to_proxy_wishlist(u, p, f)
    \/ \E u \in GiftGivers, t \in InitialUsers \ GiftGivers, f \in FormInputs :
          add_custom_gift(u, t, f)
    \/ \E u \in GiftGivers, s \in ItemIds, t \in ItemIds : merge_items_manual(u, s, t)

SpecLists == Init /\ [][NextLists]_vars

\* the owner's pages over lists that custom gifts, claims, auto-merges and a
\* converted proxy list have filled
NextOwnerView ==
    \/ \E u \in UserIds \ (AdminUsers \cup GiftGivers), f \in FormInputs : add_item(u, f)
    \/ \E u \in GiftGivers, t \in ListOwners, f \in FormInputs : add_custom_gift(u, t, f)
    \/ \E u \in GiftGivers, e \in ProxyEmailInputs \ NoEmail : create_proxy_wishlist(u, e)
    \/ \E u \in GiftGivers, p \in ProxyIds, f \in FormInputs : add_to_proxy_wishlist(u, p, f)
    \/ \E e \in RegisterEmailInputs : register(e)
    \/ \E u \in UserIds \ (AdminUsers \cup GiftGivers) : my_list(u)
    \/ \E u \in UserIds \ (AdminUsers \cup GiftGivers) : my_list_table(u)
    \/ \E u \in UserIds \ (AdminUsers \cup GiftGivers) : index(u)

SpecOwnerView == Init /\ [][NextOwnerView]_vars

\* one list with the owner's items, gifts and claims of the others, and the
\* owner opening the card and the table view
NextOwnerClaims ==
    \/ \E u \in ListOwners, f \in FormInputs : add_item(u, f)
    \/ \E u \in GiftGivers, t \in ListOwners, f \in FormInputs : add_custom_gift(u, t, f)
    \/ \E u \in UserIds, i \in ItemIds, q \in ClaimQuantities : claim_item(u, i, q)
    \/ \E u \in UserIds, c \in ClaimIds : unclaim_item(u, c)
    \/ \E u \in UserIds : my_list(u)
    \/ \E u \in UserIds : my_list_table(u)

SpecOwnerClaims == Init /\ [][NextOwnerClaims]_vars

\* ----------------------------------------------------------------- claims
\* C2: with add-item, add-custom-gift, claim, unclaim and manual merge run
\* one at a time and no quantity edited, the claims of every item sum to at
\* most its wanted quantity.
C2_ClaimsWithinQuantity ==
    \A i \in items : total_purchased(claims, i.id) <= i.quantity

\* C3: claim_item creates a claim of quantity q only if 1 <= q <= Q - S, with
\* S summed from the purchases rows of the request's state; when S >= Q or
\* q > Q - S the request is rejected and the store is unchanged.
C3_ClaimOnlyWithinRemaining ==
    [][response'.op = "claim_item" =>
        \A u \in UserIds, i \in ItemIds, q \in ClaimQuantities :
          LET Q == Item(i).quantity
              S == total_purchased(claims, i)
          IN /\ (claims' # claims /\ claim_item(u, i, q)) =>
                   /\ 1 <= q /\ q <= Q - S
                   /\ claims' = claims \cup {NewClaim(nextClaimId, i, u, q)}
             /\ ((S >= Q \/ q > Q - S) /\ claim_item(u, i, q)) =>
                   /\ response'.status \in {"rejected", "denied"}
                   /\ Item(i).user_id # u => response'.status = "rejected"
                   /\ UNCHANGED store]_vars

\* C3 witness: an item wanted twice holds one claim of two, and a claim
\* attempt on it has just been rejected as fully claimed
C3_Witness ==
    /\ response.op = "claim_item" /\ response.flash = "fully_claimed"
    /\ \A i \in items : i.quantity = 2 /\ total_purchased(claims, i.id) = 2
    /\ Cardinality(claims) = 1

\* C4: claim_item creates no claim when the actor owns the list the item is
\* on, whoever added the item; the attempt leaves the store unchanged.
C4_NoSelfClaim ==
    [][response'.op = "claim_item" =>
        \A u \in UserIds, i \in ItemIds, q \in ClaimQuantities :
          (Item(i).user_id = u /\ claim_item(u, i, q)) =>
             /\ response'.status = "denied"
             /\ UNCHANGED store]_vars

\* C4 witness: every item in the store is a custom gift that another account
\* added, it is not yet fully claimed, and a claim attempt was denied as a
\* self-claim
C4_Witness ==
    /\ response.op = "claim_item" /\ response.status = "denied"
    /\ items # {}
    /\ \A i \in items : is_custom_gift(i) /\ ~is_fully_purchased(claims, i)

\* the claims of absorb now reference keep and are otherwise the same, the
\* claims of keep and of every other item are the same rows, keep's total is
\* the sum of the two totals, and absorb is gone
MergedInto(keep, absorb, C) ==
    /\ claims' = {IF c.wishlist_item_id = absorb
                  THEN [c EXCEPT !.wishlist_item_id = keep] ELSE c : c \in C}
    /\ Cardinality(claims') = Cardinality(C)
    /\ total_purchased(claims', keep) = total_purchased(C, keep) + total_purchased(C, absorb)
    /\ absorb \notin ItemIds'
    /\ keep \in ItemIds'

\* C1: after merge_items(keep, absorb) on two items of one list, every claim
\* of absorb references keep with the same claimant, quantity and progress
\* flags, every claim of keep is unchanged, keep's claimed total is the sum
\* of the two totals, and absorb no longer exists.  The merge is reached by
\* the manual merge and by the auto-merge of add_item.
C1_MergePreservesClaims ==
    [][/\ response'.op = "merge_items_manual" =>
            \A u \in UserIds, s \in ItemIds, t \in ItemIds :
               (/\ s # t
                /\ Item(s).user_id = Item(t).user_id
                /\ Item(s).proxy_wishlist_id = Item(t).proxy_wishlist_id
                /\ merge_items_manual(u, s, t))
                  => MergedInto(t, s, claims)
       /\ response'.op = "add_item" =>
            \A u \in UserIds, f \in FormInputs :
               add_item(u, f) =>
                  /\ \A a \in ItemIds \ ItemIds' : MergedInto(nextItemId, a, claims)
                  /\ response'.flash = "merged" =>
                        /\ claims' = claims
                        /\ ItemIds' = ItemIds]_vars

\* C1 witness: a manual merge has left one item that holds two claims of
\* different accounts, one of them with a progress flag set
C1_Witness ==
    /\ response.op = "merge_items_manual" /\ response.status = "ok"
    /\ Cardinality(items) = 1
    /\ \E c \in claims, d \in claims :
          /\ c.purchased_by_id # d.purchased_by_id
          /\ c.wrapped /\ ~d.wrapped
          /\ \A i \in items : c.wishlist_item_id = i.id /\ d.wishlist_item_id = i.id

\* C10: a manual merge of two items that are not on the same list (another
\* owning account or another proxy list) is rejected and nothing is changed:
\* both items and every claim are as before.
C10_CrossListMergeRejected ==
    [][\A u \in UserIds, s \in ItemIds, t \in ItemIds :
          (/\ response'.op = "merge_items_manual"
           /\ \/ Item(s).user_id # Item(t).user_id
              \/ Item(s).proxy_wishlist_id # Item(t).proxy_wishlist_id
           /\ merge_items_manual(u, s, t))
          => /\ response'.status = "rejected"
             /\ UNCHANGED store]_vars

\* C10 witness: a merge was rejected while the store holds exactly two
\* items, each with a claim, on the lists of two different accounts
C10_Witness ==
    /\ response.op = "merge_items_manual" /\ response.status = "rejected"
    /\ Cardinality(items) = 2
    /\ \A i \in items : i.user_id # NULL /\ purchases(items, claims, i.id) # {}
    /\ \E i \in items, j \in items : i.user_id # j.user_id

\* the items of u's list that u added or that carry no adder
OwnItemIds(u) ==
    {i.id : i \in {x \in items : x.user_id = u /\ (x.added_by_id = NULL \/ x.added_by_id = u)}}

ShownIds(resp) == {resp.shown[k].id : k \in DOMAIN resp.shown}

\* C5: the owner's card view of their own list does not depend on the
\* claims: it is the page the same items render with no claim at all, so no
\* 'Fully Purchased' or 'n/m' status appears on it.
C5_OwnerViewHidesClaims ==
    [][\A u \in UserIds :
          (response'.op = "my_list" /\ my_list(u))
             => response'.shown = MyListPage(items, {}, u)]_vars

\* C6: my_list, my_list_table and the item count of the home page hold
\* exactly the items of the owner's list whose added_by_id is null or the
\* owner; an item another account added never appears.
C6_OwnerSeesExactlyOwnItems ==
    [][\A u \in UserIds :
          /\ (response'.op = "my_list" /\ my_list(u))
                => ShownIds(response') = OwnItemIds(u)
          /\ (response'.op = "my_list_table" /\ my_list_table(u))
                => ShownIds(response') = OwnItemIds(u)
          /\ (response'.op = "index" /\ index(u))
                => response'.shown[1].my_items_count = Cardinality(OwnItemIds(u))]_vars

\* C6 witness: a proxy list was converted to a new account that now holds a
\* gift of another account and an item of its own, and the list page shows
\* one item only
C6_Witness ==
    /\ response.op = "my_list" /\ Len(response.shown) = 1
    /\ Cardinality(items) = 2
    /\ \A i \in items : i.user_id = 4
    /\ \E i \in items : i.added_by_id = 3
    /\ \E i \in items : i.added_by_id = NULL /\ response.shown[1].id = i.id

\* ------------------------------------------------- edit, update, delete
\* is_owner_item of edit_item, delete_item and update_item_quick, with the
\* owner's right extended to every item of the list
is_owner_item_AnyAdder(item, u) == item.user_id = u

\* is_owner_item of edit_item, delete_item and update_item_quick
is_owner_item(item, u) ==
    item.user_id = u /\ (item.added_by_id = NULL \/ item.added_by_id = u)

\* is_custom_gift_adder
is_custom_gift_adder(item, u) == item.added_by_id = u

\* the permission test without the administrator's clause
MayModify_OwnerOrAdder(item, u) ==
    is_owner_item(item, u) \/ is_custom_gift_adder(item, u)

\* the permission test the three handlers repeat
MayModify(item, u) ==
    is_owner_item(item, u) \/ is_custom_gift_adder(item, u) \/ User(u).is_admin

\* the form an edit posts
EditInputs == {FormLegos}

\* the JSON body of a quick update: the keys it holds and their values
QuickInputs == {[keys |-> {"quantity"}, form |-> FormBook],
                [keys |-> {"name", "price"}, form |-> FormLegos]}

UpdateFromForm(item, f) ==
    [item EXCEPT !.name = f.name, !.url = f.url, !.description = f.description,
                 !.price = f.price, !.image_url = f.image_url,
                 !.quantity = f.quantity]

\* POST /wishlist/edit/<item_id> with a valid form
edit_item(u, item_id, f) ==
    LET item == Item(item_id)
    IN IF ~MayModify(item, u)
       THEN /\ response' = Resp("edit_item", "denied", "only_edit_own")
            /\ UNCHANGED <<users, proxies, delegates, items, claims, nextItemId, nextClaimId, nextProxyId, nextUserId, requests, session>>
       ELSE /\ items' = (items \ {item}) \cup {UpdateFromForm(item, f)}
            /\ response' = Resp("edit_item", "ok", "updated")
            /\ UNCHANGED <<users, proxies, delegates, claims, nextItemId, nextClaimId, nextProxyId, nextUserId, requests, session>>

\* POST /wishlist/update-item/<item_id>
update_item_quick(u, item_id, data) ==
    LET item == Item(item_id)
        v == data.form
        has(k) == k \in data.keys
    IN IF ~MayModify(item, u)
       THEN /\ response' = Resp("update_item_quick", "denied", "unauthorized")
            /\ UNCHANGED <<users, proxies, delegates, items, claims, nextItemId, nextClaimId, nextProxyId, nextUserId, requests, session>>
       ELSE /\ items' = (items \ {item}) \cup
                {[item EXCEPT
                    !.name = IF has("name") THEN v.name ELSE @,
                    !.url = IF has("url") THEN v.url ELSE @,
                    !.description = IF has("description") THEN v.description ELSE @,
                    !.price = IF has("price")
                              THEN (IF TruthyPrice(v.price) THEN v.price ELSE PriceNone)
                              ELSE @,
                    !.quantity = IF has("quantity") THEN v.quantity ELSE @,
                    !.image_url = IF has("image_url") THEN v.image_url ELSE @]}
            /\ response' = Resp("update_item_quick", "ok", "success")
            /\ UNCHANGED <<users, proxies, delegates, claims, nextItemId, nextClaimId, nextProxyId, nextUserId, requests, session>>

\* POST /wishlist/delete/<item_id>
delete_item(u, item_id) ==
    LET item == Item(item_id)
        after == DeleteItem(items, claims, item_id)
    IN IF ~MayModify(item, u)
       THEN /\ response' = Resp("delete_item", "denied", "only_delete_own")
            /\ UNCHANGED <<users, proxies, delegates, items, claims, nextItemId, nextClaimId, nextProxyId, nextUserId, requests, session>>
       ELSE /\ items' = after.items
            /\ claims' = after.claims
            /\ response' = Resp("delete_item", "ok",
                                IF is_custom_gift(item) /\ item.added_by_id = u
                                THEN "custom_gift_deleted" ELSE "item_deleted")
            /\ UNCHANGED <<users, proxies, delegates, nextItemId, nextClaimId, nextProxyId, nextUserId, requests, session>>

\* --------------------------------------------------------- delegate grants
\* WishlistDelegate rows of one account on one proxy list (at most one:
\* UNIQUE(proxy_wishlist_id, user_id))
Grants(proxy_id, u) ==
    {d \in delegates : d.proxy_wishlist_id = proxy_id /\ d.user_id = u}

\* ProxyWishlist.can_manage(user)
can_manage(proxy, u) ==
    User(u).is_admin \/ proxy.created_by_id = u \/ Grants(proxy.id, u) # {}

\* the permission flags a grant form posts
FlagInputs == {[can_add_items |-> TRUE, can_edit_items |-> FALSE, can_remove_items |-> FALSE],
               [can_add_items |-> FALSE, can_edit_items |-> TRUE, can_remove_items |-> FALSE],
               [can_add_items |-> FALSE, can_edit_items |-> FALSE, can_remove_items |-> TRUE],
               [can_add_items |-> FALSE, can_edit_items |-> FALSE, can_remove_items |-> FALSE]}

\* POST /admin/proxy-wishlist/<proxy_id>/delegates/add
add_delegate(u, proxy_id, user_id) ==
    /\ User(u).is_admin
    /\ IF Grants(proxy_id, user_id) # {}
       THEN /\ response' = Resp("add_delegate", "rejected", "already_delegate")
            /\ UNCHANGED <<users, proxies, delegates, items, claims, nextItemId, nextClaimId, nextProxyId, nextUserId, requests, session>>
       ELSE /\ delegates' = delegates \cup
                {[proxy_wishlist_id |-> proxy_id, user_id |-> user_id,
                  can_add_items |-> TRUE, can_edit_items |-> TRUE,
                  can_remove_items |-> TRUE]}
            /\ response' = Resp("add_delegate", "ok", "added")
            /\ UNCHANGED <<users, proxies, items, claims, nextItemId, nextClaimId, nextProxyId, nextUserId, requests, session>>

\* POST /admin/delegate/<delegate_id>/update-permissions
update_delegate_permissions(u, d, flags) ==
    /\ User(u).is_admin
    /\ d \in delegates
    /\ delegates' = (delegates \ {d}) \cup
          {[d EXCEPT !.can_add_items = flags.can_add_items,
                     !.can_edit_items = flags.can_edit_items,
                     !.can_remove_items = flags.can_remove_items]}
    /\ response' = Resp("update_delegate_permissions", "ok", "updated")
    /\ UNCHANGED <<users, proxies, items, claims, nextItemId, nextClaimId, nextProxyId, nextUserId, requests, session>>

\* ---------------------------------------------------------- delegate routes
\* 'if not current_user.is_admin and current_user.id != proxy.created_by_id'
FlagsApply(proxy, u) == ~User(u).is_admin /\ u # proxy.created_by_id

\* delegate_add_item: 'not delegate or not delegate.can_add_items' denies
DelegateMayAdd(proxy, u) ==
    FlagsApply(proxy, u) => \E d \in Grants(proxy.id, u) : d.can_add_items

\* the edit check reading the flag of another capability
DelegateMayEdit_AddFlag(proxy, u) ==
    FlagsApply(proxy, u) => \E d \in Grants(proxy.id, u) : d.can_add_items

\* delegate_edit_item: 'not delegate or not delegate.can_edit_items' denies
DelegateMayEdit(proxy, u) ==
    FlagsApply(proxy, u) => \E d \in Grants(proxy.id, u) : d.can_edit_items

\* delegate_delete_item: 'not delegate or not delegate.can_remove_items' denies
DelegateMayRemove(proxy, u) ==
    FlagsApply(proxy, u) => \E d \in Grants(proxy.id, u) : d.can_remove_items

\* POST /wishlist/delegate/add-item/<proxy_id> with a valid form
delegate_add_item(u, proxy_id, f) ==
    LET proxy == Proxy(proxy_id)
    IN CASE ~can_manage(proxy, u) ->
            /\ response' = Resp("delegate_add_item", "denied", "no_permission_list")
            /\ UNCHANGED <<users, proxies, delegates, items, claims, nextItemId, nextClaimId, nextProxyId, nextUserId, requests, session>>
         [] can_manage(proxy, u) /\ ~DelegateMayAdd(proxy, u) ->
            /\ response' = Resp("delegate_add_item", "denied", "no_permission_add")
            /\ UNCHANGED <<users, proxies, delegates, items, claims, nextItemId, nextClaimId, nextProxyId, nextUserId, requests, session>>
         [] OTHER ->
            /\ nextItemId <= MaxItems
            /\ items' = items \cup {NewItem(nextItemId, NULL, proxy_id, u, f)}
            /\ nextItemId' = nextItemId + 1
            /\ response' = Resp("delegate_add_item", "ok", "added")
            /\ UNCHANGED <<users, proxies, delegates, claims, nextClaimId, nextProxyId, nextUserId, requests, session>>

\* POST /wishlist/delegate/edit-item/<item_id> with a valid form
delegate_edit_item(u, item_id, f) ==
    LET item == Item(item_id)
        proxy == Proxy(item.proxy_wishlist_id)
    IN CASE item.proxy_wishlist_id = NULL ->
            /\ response' = Resp("delegate_edit_item", "denied", "not_proxy_item")
            /\ UNCHANGED <<users, proxies, delegates, items, claims, nextItemId, nextClaimId, nextProxyId, nextUserId, requests, session>>
         [] item.proxy_wishlist_id # NULL /\ ~can_manage(proxy, u) ->
            /\ response' = Resp("delegate_edit_item", "denied", "no_permission_list")
            /\ UNCHANGED <<users, proxies, delegates, items, claims, nextItemId, nextClaimId, nextProxyId, nextUserId, requests, session>>
         [] item.proxy_wishlist_id # NULL /\ can_manage(proxy, u) /\ ~DelegateMayEdit(proxy, u) ->
            /\ response' = Resp("delegate_edit_item", "denied", "no_permission_edit")
            /\ UNCHANGED <<users, proxies, delegates, items, claims, nextItemId, nextClaimId, nextProxyId, nextUserId, requests, session>>
         [] OTHER ->
            /\ items' = (items \ {item}) \cup {UpdateFromForm(item, f)}
            /\ response' = Resp("delegate_edit_item", "ok", "updated")
            /\ UNCHANGED <<users, proxies, delegates, claims, nextItemId, nextClaimId, nextProxyId, nextUserId, requests, session>>

\* POST /wishlist/delegate/delete-item/<item_id>
delegate_delete_item(u, item_id) ==
    LET item == Item(item_id)
        proxy == Proxy(item.proxy_wishlist_id)
        after == DeleteItem(items, claims, item_id)
    IN CASE item.proxy_wishlist_id = NULL ->
            /\ response' = Resp("delegate_delete_item", "denied", "not_proxy_item")
            /\ UNCHANGED <<users, proxies, delegates, items, claims, nextItemId, nextClaimId, nextProxyId, nextUserId, requests, session>>
         [] item.proxy_wishlist_id # NULL /\ ~can_manage(proxy, u) ->
            /\ response' = Resp("delegate_delete_item", "denied", "no_permission_list")
            /\ UNCHANGED <<users, proxies, delegates, items, claims, nextItemId, nextClaimId, nextProxyId, nextUserId, requests, session>>
         [] item.proxy_wishlist_id # NULL /\ can_manage(proxy, u) /\ ~DelegateMayRemove(proxy, u) ->
            /\ response' = Resp("delegate_delete_item", "denied", "no_permission_remove")
            /\ UNCHANGED <<users, proxies, delegates, items, claims, nextItemId, nextClaimId, nextProxyId, nextUserId, requests, session>>
         [] OTHER ->
            /\ items' = after.items
            /\ claims' = after.claims
            /\ response' = Resp("delegate_delete_item", "ok", "deleted")
            /\ UNCHANGED <<users, proxies, delegates, nextItemId, nextClaimId, nextProxyId, nextUserId, requests, session>>

\* ------------------------------------------------------ proxy list pages
\* can_see_claim_details answering yes to every actor
can_see_claim_details_Everyone(u, item) == TRUE

\* can_see_claim_details(actor, item): no for the owner of the item's list
\* and for a delegate of the item's proxy list who is not an admin
can_see_claim_details(u, item) ==
    /\ item.user_id # u
    /\ ~(/\ item.proxy_wishlist_id # NULL
         /\ Grants(item.proxy_wishlist_id, u) # {}
         /\ ~User(u).is_admin)

\* the claim data a page renders for one item
ClaimDetails(C, item) ==
    [visible |-> TRUE, total |-> total_purchased(C, item.id),
     claimed_by |-> {c.purchased_by_id : c \in purchases(items, C, item.id)}]

HiddenDetails == [visible |-> FALSE, total |-> 0, claimed_by |-> {}]

ProxyPageRow(C, u, item, is_delegate) ==
    [id |-> item.id, name |-> item.name, quantity |-> item.quantity,
     added_by_id |-> item.added_by_id, is_delegate |-> is_delegate,
     claim |-> IF can_see_claim_details(u, item)
               THEN ClaimDetails(C, item) ELSE HiddenDetails]

\* delegate_record of manage_as_delegate
delegate_record(proxy, u) ==
    IF FlagsApply(proxy, u) THEN Grants(proxy.id, u) ELSE {}

\* what wishlist/manage_delegate.html renders
ManageDelegatePage(I, C, u, proxy) ==
    LET rows == OrderDesc({i \in I : i.proxy_wishlist_id = proxy.id})
    IN [k \in 1..Len(rows) |->
           ProxyPageRow(C, u, rows[k], delegate_record(proxy, u) # {})]

\* GET /wishlist/manage-delegate/<proxy_id>
manage_as_delegate(u, proxy_id) ==
    LET proxy == Proxy(proxy_id)
    IN /\ response' = IF ~can_manage(proxy, u)
                      THEN Resp("manage_as_delegate", "denied", "no_permission_list")
                      ELSE [Resp("manage_as_delegate", "ok", "none") EXCEPT
                               !.shown = ManageDelegatePage(items, claims, u, proxy)]
       /\ UNCHANGED <<users, proxies, delegates, items, claims, nextItemId, nextClaimId, nextProxyId, nextUserId, requests, session>>

\* a page that shows a delegate every item of the list
ViewProxyListPage_Unfiltered(I, C, u, proxy) ==
    LET rows == OrderDesc({i \in I : i.proxy_wishlist_id = proxy.id})
    IN [k \in 1..Len(rows) |-> ProxyPageRow(C, u, rows[k], Grants(proxy.id, u) # {})]

\* what wishlist/view_proxy_list.html renders: a delegate of the list is
\* shown the items of the list other than the gifts other accounts added
ViewProxyListPage(I, C, u, proxy) ==
    LET delegate == Grants(proxy.id, u) # {}
        listed == {i \in I : i.proxy_wishlist_id = proxy.id}
        rows == OrderDesc({i \in listed :
                    delegate => (i.added_by_id = NULL \/ i.added_by_id = u)})
    IN [k \in 1..Len(rows) |-> ProxyPageRow(C, u, rows[k], delegate)]

\* GET /wishlist/view-proxy/<proxy_id>
view_proxy_wishlist(u, proxy_id) ==
    /\ response' = [Resp("view_proxy_wishlist", "ok", "none") EXCEPT
                       !.shown = ViewProxyListPage(items, claims, u, Proxy(proxy_id))]
    /\ UNCHANGED <<users, proxies, delegates, items, claims, nextItemId, nextClaimId, nextProxyId, nextUserId, requests, session>>

\* ---------------------------------------------------------- specifications

\* items of an account's list and of a proxy list, a delegate grant, and
\* every account editing, updating and deleting
NextModify ==
    \/ \E u \in ListOwners, f \in EditInputs : add_item(u, f)
    \/ \E u \in GiftGivers, t \in ListOwners, f \in EditInputs : add_custom_gift(u, t, f)
    \/ \E u \in AdminUsers, e \in NoEmail : create_proxy_wishlist(u, e)
    \/ \E u \in GiftGivers, p \in ProxyIds, f \in EditInputs : add_to_proxy_wishlist(u, p, f)
    \/ \E u \in AdminUsers, p \in ProxyIds, d \in GrantHolders : add_delegate(u, p, d)
    \/ \E u \in UserIds, i \in ItemIds, f \in {FormBook} : edit_item(u, i, f)
    \/ \E u \in UserIds, i \in ItemIds, d \in {x \in QuickInputs : "name" \in x.keys} : update_item_quick(u, i, d)
    \/ \E u \in UserIds, i \in ItemIds : delete_item(u, i)

SpecModify == Init /\ [][NextModify]_vars


\* the proxy lists, their grants and flags, and every account using the
\* delegate routes
NextDelegate ==
    \/ \E u \in GiftGivers, e \in NoEmail : create_proxy_wishlist(u, e)
    \/ \E u \in AdminUsers, p \in ProxyIds, d \in GrantHolders : add_delegate(u, p, d)
    \/ \E u \in AdminUsers, d \in delegates, fl \in FlagInputs :
          update_delegate_permissions(u, d, fl)
    \/ \E u \in GrantHolders \cup AdminUsers, p \in ProxyIds, f \in EditInputs :
          delegate_add_item(u, p, f)
    \/ \E u \in UserIds, i \in ItemIds, f \in {FormBook} : delegate_edit_item(u, i, f)
    \/ \E u \in UserIds, i \in ItemIds : delegate_delete_item(u, i)

SpecDelegate == Init /\ [][NextDelegate]_vars

\* the proxy lists with gifts, claims and grants, and every account opening
\* their pages
NextDelegateView ==
    \/ \E u \in GiftGivers, e \in NoEmail : create_proxy_wishlist(u, e)
    \/ \E u \in GiftGivers, p \in ProxyIds, f \in EditInputs : add_to_proxy_wishlist(u, p, f)
    \/ \E u \in GrantHolders, p \in ProxyIds, f \in {FormBook} : delegate_add_item(u, p, f)
    \/ \E u \in GiftGivers, i \in ItemIds, q \in ClaimQuantities : claim_item(u, i, q)
    \/ \E u \in AdminUsers, p \in ProxyIds, d \in GrantHolders : add_delegate(u, p, d)
    \/ \E u \in UserIds, p \in ProxyIds : manage_as_delegate(u, p)
    \/ \E u \in UserIds, p \in ProxyIds : view_proxy_wishlist(u, p)

SpecDelegateView == Init /\ [][NextDelegateView]_vars

\* ------------------------------------------------ claims on permissions
\* the actor holds a grant on the item's proxy list with the flag set
HoldsEditFlag(u, item) ==
    /\ item.proxy_wishlist_id # NULL
    /\ \E d \in delegates : /\ d.proxy_wishlist_id = item.proxy_wishlist_id
                            /\ d.user_id = u /\ d.can_edit_items

HoldsRemoveFlag(u, item) ==
    /\ item.proxy_wishlist_id # NULL
    /\ \E d \in delegates : /\ d.proxy_wishlist_id = item.proxy_wishlist_id
                            /\ d.user_id = u /\ d.can_remove_items

\* admin, or the item is on the actor's list with no adder or the actor as
\* adder, or the actor added the item
OwnsOrAddedOrAdmin(u, item) ==
    \/ \E a \in users : a.id = u /\ a.is_admin
    \/ item.user_id = u /\ item.added_by_id \in {NULL, u}
    \/ item.added_by_id = u

\* C8 as stated: an edit, quick update or delete is carried out if and only
\* if the actor is admin, owns the item outright, added it, or is a delegate
\* of the item's proxy list holding the capability flag; otherwise it is
\* denied and nothing changes.
C8_ModifyIffOwnerAdderAdminOrDelegate ==
    [][\A u \in UserIds, i \in ItemIds :
         /\ (response'.op = "edit_item" /\ \E f \in {FormBook} : edit_item(u, i, f)) =>
               /\ response'.status = "ok"
                    <=> (OwnsOrAddedOrAdmin(u, Item(i)) \/ HoldsEditFlag(u, Item(i)))
               /\ response'.status # "ok" => UNCHANGED store
         /\ (response'.op = "update_item_quick"
               /\ \E d \in QuickInputs : update_item_quick(u, i, d)) =>
               /\ response'.status = "ok"
                    <=> (OwnsOrAddedOrAdmin(u, Item(i)) \/ HoldsEditFlag(u, Item(i)))
               /\ response'.status # "ok" => UNCHANGED store
         /\ (response'.op = "delete_item" /\ delete_item(u, i)) =>
               /\ response'.status = "ok"
                    <=> (OwnsOrAddedOrAdmin(u, Item(i)) \/ HoldsRemoveFlag(u, Item(i)))
               /\ response'.status # "ok" => UNCHANGED store]_vars

\* C8 amended: through edit_item, update_item_quick and delete_item a
\* request is carried out if and only if the actor is admin, or the item is
\* on the actor's own list with added_by_id null or the actor, or the actor
\* added the item; a delegate's capability flag does not count on these
\* routes; a denied request leaves the store unchanged, a delete that is
\* carried out removes the item and an edit stores the posted values.
C8_ModifyIffOwnerAdderAdmin ==
    [][\A u \in UserIds, i \in ItemIds :
         /\ (response'.op = "edit_item" /\ \E f \in {FormBook} : edit_item(u, i, f)) =>
               /\ response'.status = "ok" <=> OwnsOrAddedOrAdmin(u, Item(i))
               /\ response'.status = "ok" =>
                     \E n \in items' : /\ n.id = i /\ n.name = FormBook.name
                                       /\ n.quantity = FormBook.quantity
                                       /\ claims' = claims
               /\ response'.status # "ok" =>
                     response'.status = "denied" /\ UNCHANGED store
         /\ (response'.op = "update_item_quick"
               /\ \E d \in QuickInputs : update_item_quick(u, i, d)) =>
               /\ response'.status = "ok" <=> OwnsOrAddedOrAdmin(u, Item(i))
               /\ response'.status # "ok" =>
                     response'.status = "denied" /\ UNCHANGED store
         /\ (response'.op = "delete_item" /\ delete_item(u, i)) =>
               /\ response'.status = "ok" <=> OwnsOrAddedOrAdmin(u, Item(i))
               /\ response'.status = "ok" => i \notin {n.id : n \in items'}
               /\ response'.status # "ok" =>
                     response'.status = "denied" /\ UNCHANGED store]_vars

\* C8 witness: the only item is a gift account 3 added to the list of
\* account 2, and an edit of it was denied (accounts 1 and 3 are admin and
\* adder, so the denied actor is the list owner)
C8_Witness ==
    /\ response.op = "edit_item" /\ response.status = "denied"
    /\ UserIds = {1, 2, 3}
    /\ Cardinality(items) = 1
    /\ \A i \in items : i.user_id = 2 /\ i.added_by_id = 3

\* C9: on the delegate routes an actor who is neither admin nor the creator
\* of the proxy list adds an item only with a grant whose can_add_items is
\* true, edits one only with can_edit_items, deletes one only with
\* can_remove_items; without a grant none of the three is carried out; a
\* request that is not carried out leaves the store unchanged.
C9_DelegateRoutesGatedByFlags ==
    [][\A u \in UserIds :
         LET plain(p) == /\ \E a \in users : a.id = u /\ ~a.is_admin
                         /\ \E x \in proxies : x.id = p /\ x.created_by_id # u
             grants(p) == {d \in delegates : d.proxy_wishlist_id = p /\ d.user_id = u}
         IN /\ \A p \in ProxyIds :
                 (response'.op = "delegate_add_item"
                    /\ \E f \in EditInputs : delegate_add_item(u, p, f)) =>
                    /\ (plain(p) /\ response'.status = "ok") =>
                          \E d \in grants(p) : d.can_add_items
                    /\ response'.status # "ok" => UNCHANGED store
            /\ \A i \in ItemIds :
                 (response'.op = "delegate_edit_item"
                    /\ \E f \in {FormBook} : delegate_edit_item(u, i, f)) =>
                    /\ (plain(Item(i).proxy_wishlist_id) /\ response'.status = "ok") =>
                          \E d \in grants(Item(i).proxy_wishlist_id) : d.can_edit_items
                    /\ response'.status # "ok" => UNCHANGED store
            /\ \A i \in ItemIds :
                 (response'.op = "delegate_delete_item" /\ delegate_delete_item(u, i)) =>
                    /\ (plain(Item(i).proxy_wishlist_id) /\ response'.status = "ok") =>
                          \E d \in grants(Item(i).proxy_wishlist_id) : d.can_remove_items
                    /\ response'.status # "ok" => UNCHANGED store]_vars

\* C9 witness: the one grant allows adding and not editing, the list holds
\* an item, and an edit through the delegate route was denied for the flag
C9_Witness ==
    /\ response.op = "delegate_edit_item"
    /\ response.flash = "no_permission_edit"
    /\ Cardinality(delegates) = 1
    /\ \A d \in delegates : d.can_add_items /\ ~d.can_edit_items
    /\ items # {}

\* C7: a delegate of a proxy list who is not an admin, whatever the flags
\* of the grant, gets no claim data on manage_as_delegate and on
\* view_proxy_wishlist: every row of the page hides whether the item is
\* claimed, by whom and how far.
C7_DelegateSeesNoClaims ==
    [][\A u \in UserIds, p \in ProxyIds :
         (/\ response'.op \in {"manage_as_delegate", "view_proxy_wishlist"}
          /\ \E a \in users : a.id = u /\ ~a.is_admin
          /\ \E d \in delegates : d.proxy_wishlist_id = p /\ d.user_id = u
          /\ manage_as_delegate(u, p) \/ view_proxy_wishlist(u, p))
         => \A k \in DOMAIN response'.shown :
               /\ ~response'.shown[k].claim.visible
               /\ response'.shown[k].claim.total = 0
               /\ response'.shown[k].claim.claimed_by = {}]_vars

\* C7 witness: a delegate holding all three flags opened the manage page of
\* a list whose item is claimed, and the row shows no claim data
C7_Witness ==
    /\ response.op = "manage_as_delegate" /\ response.status = "ok"
    /\ Len(response.shown) > 0
    /\ \A k \in DOMAIN response.shown : ~response.shown[k].claim.visible
    /\ \E d \in delegates : d.can_add_items /\ d.can_edit_items /\ d.can_remove_items
    /\ \E k \in DOMAIN response.shown :
          \E c \in claims : c.wishlist_item_id = response.shown[k].id

\* ------------------------------------------------------ field fill-in
\* the forms of the fill-in runs: every optional field left out, every
\* optional field filled, and every optional field blank with price 0
FillInputs == {FormLego, FormBook, FormLegos}

\* one list filled by its owner and by gifts, and merged by hand
NextFill ==
    \/ \E u \in ListOwners, f \in FillInputs : add_item(u, f)
    \/ \E u \in GiftGivers, t \in ListOwners, f \in FillInputs : add_custom_gift(u, t, f)
    \/ \E u \in GiftGivers, s \in ItemIds, t \in ItemIds : merge_items_manual(u, s, t)

SpecFill == Init /\ [][NextFill]_vars

\* a text field is empty when it is null or the empty string
EmptyText(v) == v = None \/ v = <<>>

\* a text field of keep after a merge: changed only from empty, and then to
\* absorb's value
TextFieldKept(before, after, absorbed) ==
    /\ ~EmptyText(before) => after = before
    /\ after # before => (EmptyText(before) /\ after = absorbed)

\* C11: merge_items(keep, absorb) changes keep's description, price,
\* image_url or url only when keep's value was null or the empty string (for
\* price: null) and then to absorb's value; a populated field of keep is
\* unchanged; keep's name and added_by_id never change.
C11_MergeFillsOnlyEmptyFields ==
    [][response'.op = "merge_items_manual" =>
        \A u \in UserIds, s \in ItemIds, t \in ItemIds :
          (s # t /\ response'.status = "ok" /\ merge_items_manual(u, s, t)) =>
             \E k \in items' :
                LET keep == Item(t)
                    absorb == Item(s)
                IN /\ k.id = t
                   /\ TextFieldKept(keep.description, k.description, absorb.description)
                   /\ TextFieldKept(keep.image_url, k.image_url, absorb.image_url)
                   /\ TextFieldKept(keep.url, k.url, absorb.url)
                   /\ keep.price # PriceNone => k.price = keep.price
                   /\ k.price # keep.price =>
                         (keep.price = PriceNone /\ k.price = absorb.price)
                   /\ k.name = keep.name
                   /\ k.added_by_id = keep.added_by_id]_vars

\* --------------------------------------------------- proxy conversion
\* a proxy list with a contact email, gifts on it with their claims and
\* progress marks, and the registration that converts it
NextConvert ==
    \/ \E u \in GiftGivers, e \in ProxyEmailInputs : create_proxy_wishlist(u, e)
    \/ \E u \in GiftGivers, p \in ProxyIds, f \in FormInputs : add_to_proxy_wishlist(u, p, f)
    \/ \E u \in GiftGivers, c \in ClaimIds, d \in StatusInputs : update_claim_status(u, c, d)
    \/ \E e \in RegisterEmailInputs : register(e)

SpecConvert == Init /\ [][NextConvert]_vars

\* C12: a registration whose email equals the contact email of a proxy list
\* converts a proxy list of that email in the same request: the list is
\* deleted, every item that was on it has proxy_wishlist_id null and user_id
\* the new account, its added_by_id and other fields as before, and every
\* claim is the same row as before.
C12_RegistrationConvertsProxy ==
    [][response'.op = "register" =>
        \A e \in RegisterEmailInputs :
          ((\E p \in proxies : p.email = Lower(e)) /\ register(e)) =>
             \E p \in proxies :
                /\ p.email = Lower(e)
                /\ p.id \notin {x.id : x \in proxies'}
                /\ \E a \in users' \ users : a.id = nextUserId /\ a.email = Lower(e)
                /\ \A i \in items :
                      IF i.proxy_wishlist_id = p.id
                      THEN /\ i \notin items'
                           /\ \E n \in items' :
                                 /\ n.id = i.id
                                 /\ n.proxy_wishlist_id = NULL
                                 /\ n.user_id = nextUserId
                                 /\ n.added_by_id = i.added_by_id
                                 /\ n = [i EXCEPT !.proxy_wishlist_id = NULL,
                                                  !.user_id = nextUserId]
                      ELSE i \in items'
                /\ Cardinality(items') = Cardinality(items)
                /\ claims' = claims]_vars

\* C12 witness: a registration converted a proxy list, and the new account
\* holds two gifts of account 3, one of them with a claim marked received
C12_Witness ==
    /\ response.op = "register" /\ response.flash = "converted"
    /\ proxies = {}
    /\ Cardinality(items) = 2
    /\ \A i \in items : i.user_id = 4 /\ i.proxy_wishlist_id = NULL /\ i.added_by_id = 3
    /\ \E c \in claims : c.received /\ c.purchased_by_id = 3
    /\ \A i \in items : purchases(items, claims, i.id) # {}

\* ------------------------------------------------------- admin deletions
\* db.session.delete(user): the cascades of User.wishlist_items and
\* User.purchases delete the account's items (with their purchases) and the
\* account's own purchases; custom_gifts_added has no cascade, so the items
\* the account added elsewhere stay with added_by_id set to null; the
\* grants go with the ON DELETE CASCADE of wishlist_delegates.user_id
UserCascade(I, C, D, user_id) ==
    LET gone == {i.id : i \in {x \in I : x.user_id = user_id}}
    IN [items |-> {IF i.added_by_id = user_id THEN [i EXCEPT !.added_by_id = NULL] ELSE i :
                      i \in {x \in I : x.id \notin gone}},
        claims |-> {c \in C : c.wishlist_item_id \notin gone /\ c.purchased_by_id # user_id},
        delegates |-> {d \in D : d.user_id # user_id}]

\* POST /admin/user/<user_id>/delete
delete_user(u, user_id) ==
    /\ User(u).is_admin
    /\ IF user_id = u
       THEN /\ response' = Resp("delete_user", "rejected", "own_account")
            /\ UNCHANGED <<users, proxies, delegates, items, claims, nextItemId, nextClaimId, nextProxyId, nextUserId, requests, session>>
       ELSE LET after == UserCascade(items, claims, delegates, user_id)
            IN /\ users' = {x \in users : x.id # user_id}
               /\ items' = after.items
               /\ claims' = after.claims
               /\ delegates' = after.delegates
               /\ response' = Resp("delete_user", "ok", "deleted")
               /\ UNCHANGED <<proxies, nextItemId, nextClaimId, nextProxyId, nextUserId, requests, session>>

\* the rows that go with a proxy list: its items with their purchases, and
\* its grants
ProxyListCascade(I, C, D, proxy_id) ==
    LET gone == {i.id : i \in {x \in I : x.proxy_wishlist_id = proxy_id}}
    IN [items |-> {i \in I : i.id \notin gone},
        claims |-> {c \in C : c.wishlist_item_id \notin gone},
        delegates |-> {d \in D : d.proxy_wishlist_id # proxy_id}]

\* POST /admin/proxy-wishlist/<proxy_id>/delete
delete_proxy_wishlist(u, proxy_id) ==
    LET after == ProxyListCascade(items, claims, delegates, proxy_id)
    IN /\ User(u).is_admin
       /\ proxies' = {p \in proxies : p.id # proxy_id}
       /\ items' = after.items
       /\ claims' = after.claims
       /\ delegates' = after.delegates
       /\ response' = Resp("delete_proxy_wishlist", "ok", "deleted")
       /\ UNCHANGED <<users, nextItemId, nextClaimId, nextProxyId, nextUserId, requests, session>>

\* every flow that creates an item, the conversion of a proxy list, and the
\* admin deleting accounts and proxy lists
ShapeInputs == {FormLego}

NextShape ==
    \/ \E u \in ListOwners \cap UserIds, f \in ShapeInputs : add_item(u, f)
    \/ \E u \in GiftGivers \cap UserIds, t \in ListOwners \cap UserIds, f \in ShapeInputs :
          add_custom_gift(u, t, f)
    \/ \E u \in AdminUsers, e \in ProxyEmailInputs \ NoEmail : create_proxy_wishlist(u, e)
    \/ \E u \in GiftGivers \cap UserIds, p \in ProxyIds, f \in ShapeInputs :
          add_to_proxy_wishlist(u, p, f)
    \/ \E u \in AdminUsers, p \in ProxyIds, d \in GrantHolders \cap UserIds : add_delegate(u, p, d)
    \/ \E u \in GrantHolders \cap UserIds, p \in ProxyIds, f \in ShapeInputs :
          delegate_add_item(u, p, f)
    \/ \E e \in RegisterEmailInputs : register(e)
    \/ \E u \in AdminUsers, d \in UserIds : delete_user(u, d)
    \/ \E u \in AdminUsers, p \in ProxyIds : delete_proxy_wishlist(u, p)

SpecShape == Init /\ [][NextShape]_vars

NextAutoMerge ==
    \/ \E u \in ListOwners, f \in FillInputs : add_item(u, f)
    \/ \E u \in ListOwners, d \in FillInputs : add_item_from_scraped_data(u, d)
    \/ \E u \in GiftGivers, t \in ListOwners, f \in FillInputs : add_custom_gift(u, t, f)
    \/ \E u \in GiftGivers, i \in ItemIds, q \in ClaimQuantities : claim_item(u, i, q)

SpecAutoMerge == Init /\ [][NextAutoMerge]_vars

\* the items of u's list that resemble the name and url being added
SimilarOnList(u, f) ==
    {i \in items : i.user_id = u /\ similar_items([name |-> f.name, url |-> f.url], i, NameThresholdAdd)}

\* the outcome of an add that found a similar item e: a gift of another
\* account is absorbed into the new item, which is the owner's; otherwise the
\* new item is absorbed into e; one of the two is left, with every claim
AutoMerged(u, e) ==
    /\ Cardinality(items') = Cardinality(items)
    /\ IF e.added_by_id # NULL /\ e.added_by_id # u
       THEN /\ e.id \notin ItemIds'
            /\ \E n \in items' : /\ n.id = nextItemId /\ n.user_id = u
                                  /\ n.added_by_id = NULL /\ n.proxy_wishlist_id = NULL
            /\ claims' = {IF c.wishlist_item_id = e.id
                          THEN [c EXCEPT !.wishlist_item_id = nextItemId] ELSE c : c \in claims}
            /\ Cardinality(claims') = Cardinality(claims)
       ELSE /\ nextItemId \notin ItemIds'
            /\ ItemIds' = ItemIds
            /\ claims' = claims

\* C14: when add_item or add_item_from_scraped_data finds a similar item on
\* the actor's list, a custom gift of another account is absorbed into the
\* new, owner-added item and deleted; any other existing item is kept and
\* the new item deleted; exactly one of the two remains and holds all the
\* claims of both.
C14_AutoMergeDirection ==
    [][\A u \in UserIds, f \in FillInputs :
         /\ (response'.op = "add_item" /\ SimilarOnList(u, f) # {} /\ add_item(u, f))
               => \E e \in SimilarOnList(u, f) : AutoMerged(u, e)
         /\ (response'.op = "add_item_from_scraped_data" /\ SimilarOnList(u, f) # {}
               /\ add_item_from_scraped_data(u, f))
               => \E e \in SimilarOnList(u, f) : AutoMerged(u, e)]_vars

\* C14 witness: the owner's add absorbed a claimed gift of account 3: the
\* one item left is the new one, owner-added, and it holds the gift's claim
C14_Witness ==
    /\ response.op \in {"add_item", "add_item_from_scraped_data"}
    /\ response.flash = "added"
    /\ Cardinality(items) = 1
    /\ \A i \in items : i.id = 2 /\ i.added_by_id = NULL /\ i.user_id = 2
    /\ \E c \in claims : c.wishlist_item_id = 2 /\ c.purchased_by_id = 3

\* ------------------------------------------------- concurrent requests
\* The application runs under several gunicorn workers over one database
\* and takes no lock (no with_for_update, no isolation level is set): the
\* queries of a request and its commit are separate steps, and the requests
\* of other workers commit in between.  A request is a record: pc is "read"
\* after its queries and "done" once it is answered.
Request(kind, pc, u, item_id, quantity, target_id, moved, status, claim_id) ==
    [id |-> Cardinality(requests) + 1, kind |-> kind, pc |-> pc, user |-> u,
     item_id |-> item_id, quantity |-> quantity, target_id |-> target_id,
     moved |-> moved, status |-> status, claim_id |-> claim_id]

Answered(r, status, claim_id) ==
    (requests \ {r}) \cup {[r EXCEPT !.pc = "done", !.status = status, !.claim_id = claim_id]}

\* claim_item up to its last query: the item, the self-claim test and
\* remaining = item.quantity - item.total_purchased
claim_item_read(u, item_id, quantity) ==
    LET item == Item(item_id)
        remaining == Remaining(claims, item)
        refused == IF IsOwnList(item, u) THEN "denied"
                   ELSE IF remaining <= 0 \/ quantity > remaining THEN "rejected"
                   ELSE "none"
    IN /\ Cardinality(requests) < MaxRequests
       /\ IF refused # "none"
          THEN /\ requests' = requests \cup
                      {Request("claim", "done", u, item_id, quantity, NULL, {}, refused, NULL)}
               /\ response' = Resp("claim_item", refused, "refused")
          ELSE /\ requests' = requests \cup
                      {Request("claim", "read", u, item_id, quantity, NULL, {}, "none", NULL)}
               /\ response' = response
       /\ UNCHANGED <<users, proxies, delegates, items, claims, nextItemId, nextClaimId, nextProxyId, nextUserId, session>>

\* claim_item from db.session.add(purchase) to the commit: the row is
\* inserted as decided from what was read.  If the item is gone by now, a
\* database that enforces the foreign key fails the insert and one that
\* does not (SQLite without the foreign_keys pragma) stores the row.
claim_item_write(r) ==
    /\ r.kind = "claim" /\ r.pc = "read"
    /\ nextClaimId <= MaxClaims
    /\ \/ /\ claims' = claims \cup {NewClaim(nextClaimId, r.item_id, r.user, r.quantity)}
          /\ nextClaimId' = nextClaimId + 1
          /\ requests' = Answered(r, "ok", nextClaimId)
          /\ response' = Resp("claim_item", "ok", "claimed")
       \/ /\ r.item_id \notin ItemIds
          /\ UNCHANGED <<claims, nextClaimId>>
          /\ requests' = Answered(r, "error", NULL)
          /\ response' = Resp("claim_item", "error", "integrity")
    /\ UNCHANGED <<users, proxies, delegates, items, nextItemId, nextProxyId, nextUserId, session>>

\* merge_items_manual up to the Purchase query of merge_items: the two
\* items, the same-list check and the purchases of the source item, which
\* are pointed at the target
merge_items_manual_read(u, source_item_id, target_item_id) ==
    LET source_item == Item(source_item_id)
        target_item == Item(target_item_id)
        found == {c.id : c \in purchases(items, claims, source_item_id)}
    IN /\ Cardinality(requests) < MaxRequests
       /\ source_item_id # target_item_id
       /\ IF ~SameWishlist(source_item, target_item)
          THEN /\ requests' = requests \cup
                      {Request("merge", "done", u, source_item_id, 0, target_item_id, {},
                               "rejected", NULL)}
               /\ response' = Resp("merge_items_manual", "rejected", "same_wishlist")
          ELSE /\ requests' = requests \cup
                      {Request("merge", "read", u, source_item_id, 0, target_item_id, found,
                               "none", NULL)}
               /\ response' = response
       /\ UNCHANGED <<users, proxies, delegates, items, claims, nextItemId, nextClaimId, nextProxyId, nextUserId, session>>

\* merge_items from db.session.delete(new_item) to the commit: the
\* purchases found earlier reference the target, the delete cascades to the
\* purchases that reference the source item now, and the target holds the
\* merged fields.  A row that another request deleted meanwhile fails the
\* flush.
merge_items_manual_write(r) ==
    /\ r.kind = "merge" /\ r.pc = "read"
    /\ IF r.item_id \notin ItemIds \/ r.target_id \notin ItemIds
       THEN /\ UNCHANGED <<items, claims>>
            /\ requests' = Answered(r, "error", NULL)
            /\ response' = Resp("merge_items_manual", "error", "stale")
       ELSE LET found == {c \in claims : c.id \in r.moved}
                m == merge_items(items, found, r.target_id, r.item_id)
                others == {c \in claims \ found : c.wishlist_item_id # r.item_id}
            IN /\ items' = m.items
               /\ claims' = m.claims \cup others
               /\ requests' = Answered(r, "ok", NULL)
               /\ response' = Resp("merge_items_manual", "ok", "merged")
    /\ UNCHANGED <<users, proxies, delegates, nextItemId, nextClaimId, nextProxyId, nextUserId, session>>

\* an item and the claim requests of several workers on it
NextRaceClaims ==
    \/ \E u \in ListOwners, f \in FormInputs : add_item(u, f)
    \/ \E u \in UserIds, i \in ItemIds, q \in ClaimQuantities : claim_item_read(u, i, q)
    \/ \E r \in requests : claim_item_write(r)

SpecRaceClaims == Init /\ [][NextRaceClaims]_vars

\* C15: after any interleaving of claim requests the claims of every item
\* sum to at most its wanted quantity: two requests that each read the
\* remaining quantity and then insert never both succeed beyond it.
C15_ConcurrentClaimsWithinQuantity ==
    \A i \in items : total_purchased(claims, i.id) <= i.quantity

\* two items of one list, claim requests and merge requests of several
\* workers
NextRaceMerge ==
    \/ \E u \in ListOwners, f \in FormInputs : add_item(u, f)
    \/ \E u \in GiftGivers, i \in ItemIds, q \in ClaimQuantities : claim_item_read(u, i, q)
    \/ \E r \in requests : claim_item_write(r)
    \/ \E u \in GiftGivers, s \in ItemIds, t \in ItemIds : merge_items_manual_read(u, s, t)
    \/ \E r \in requests : merge_items_manual_write(r)

SpecRaceMerge == Init /\ [][NextRaceMerge]_vars

\* C16: after any interleaving of a merge with a claim request on the
\* absorbed item, every claim that was answered as created exists exactly
\* once and references an item that exists.
C16_MergeKeepsConcurrentClaim ==
    \A r \in requests :
       (r.kind = "claim" /\ r.pc = "done" /\ r.status = "ok") =>
          /\ Cardinality({c \in claims : c.id = r.claim_id}) = 1
          /\ \A c \in claims : c.id = r.claim_id => c.wishlist_item_id \in ItemIds

\* ------------------------------------------------------ viewing a list
\* a query that leaves out the gifts other accounts added
UserListItems_OwnerAddedOnly(I, user_id) ==
    {i \in I : i.user_id = user_id /\ i.added_by_id \in {NULL, user_id}}

\* WishlistItem.query.filter_by(user_id=user_id) of view_user_list
UserListItems(I, user_id) == {i \in I : i.user_id = user_id}

\* what wishlist/view_list.html renders for one item
ViewListCard(C, item) ==
    [id |-> item.id, name |-> item.name, description |-> item.description,
     price |-> item.price, image_url |-> item.image_url, url |-> item.url,
     quantity |-> item.quantity,
     fully_purchased |-> is_fully_purchased(C, item),
     total_purchased |-> total_purchased(C, item.id)]

\* GET /wishlist/view/<user_id>
view_user_list(u, user_id) ==
    /\ response' = [Resp("view_user_list", "ok", "none") EXCEPT
                       !.shown = LET rows == OrderDesc(UserListItems(items, user_id))
                                 IN [k \in 1..Len(rows) |-> ViewListCard(claims, rows[k])]]
    /\ UNCHANGED <<users, proxies, delegates, items, claims, nextItemId, nextClaimId, nextProxyId, nextUserId, requests, session>>

\* a list of an account and a proxy list, with the owner's items, gifts of
\* other accounts, a delegate's items, and every account opening them
NextViewer ==
    \/ \E u \in ListOwners, f \in FormInputs : add_item(u, f)
    \/ \E u \in GiftGivers, t \in ListOwners, f \in FormInputs : add_custom_gift(u, t, f)
    \/ \E u \in AdminUsers, e \in NoEmail : create_proxy_wishlist(u, e)
    \/ \E u \in GiftGivers, p \in ProxyIds, f \in {FormBook} : add_to_proxy_wishlist(u, p, f)
    \/ \E u \in AdminUsers, p \in ProxyIds, d \in GrantHolders : add_delegate(u, p, d)
    \/ \E u \in GrantHolders, p \in ProxyIds, f \in {FormLego} : delegate_add_item(u, p, f)
    \/ \E u \in UserIds, t \in UserIds : view_user_list(u, t)
    \/ \E u \in UserIds, p \in ProxyIds : view_proxy_wishlist(u, p)

SpecViewer == Init /\ [][NextViewer]_vars

\* a page that lists exactly the items S, the most recently created first
ListsAllNewestFirst(resp, S) ==
    /\ {resp.shown[k].id : k \in DOMAIN resp.shown} = {i.id : i \in S}
    /\ Len(resp.shown) = Cardinality(S)
    /\ \A k \in DOMAIN resp.shown, l \in DOMAIN resp.shown :
          k < l => resp.shown[k].id > resp.shown[l].id

\* C17: an account that is neither the owner nor a delegate of the list is
\* shown every item of another account's list and of a proxy list, the
\* gifts other accounts added included, the most recently created first.
C17_ThirdPartySeesAllItems ==
    [][/\ response'.op = "view_user_list" =>
            \A u \in UserIds, t \in UserIds :
               (u # t /\ view_user_list(u, t)) =>
                  ListsAllNewestFirst(response', {i \in items : i.user_id = t})
       /\ response'.op = "view_proxy_wishlist" =>
            \A u \in UserIds, p \in ProxyIds :
               ((\A d \in delegates : ~(d.proxy_wishlist_id = p /\ d.user_id = u))
                  /\ view_proxy_wishlist(u, p)) =>
                  ListsAllNewestFirst(response', {i \in items : i.proxy_wishlist_id = p})]_vars

\* C17 witness: account 1 opened the list of account 2 and was shown two
\* items, the newer first, one of them a gift account 3 added
C17_Witness ==
    /\ response.op = "view_user_list"
    /\ Len(response.shown) = 2
    /\ response.shown[1].id > response.shown[2].id
    /\ \A i \in items : i.user_id = 2
    /\ \E i \in items : i.added_by_id = 3
    /\ \E i \in items : i.added_by_id = NULL

C20_DelegateItemNotCustomGift ==
    [][response'.op = "delegate_add_item" =>
        \A u \in UserIds, p \in ProxyIds :
          ((\E d \in delegates : d.proxy_wishlist_id = p /\ d.user_id = u)
             /\ response'.status = "ok"
             /\ \E f \in EditInputs : delegate_add_item(u, p, f)) =>
             /\ claims' = claims
             /\ \E n \in items' \ items :
                   /\ n.proxy_wishlist_id = p
                   /\ n.added_by_id = u
                   /\ ~is_custom_gift(n)]_vars

\* ------------------------------------------------------ the administrator
\* POST /wishlist/edit-proxy/<proxy_id> with a valid form
edit_proxy_wishlist(u, proxy_id, email) ==
    LET proxy == Proxy(proxy_id)
    IN IF proxy.created_by_id # u /\ ~User(u).is_admin
       THEN /\ response' = Resp("edit_proxy_wishlist", "denied", "only_edit_created")
            /\ UNCHANGED <<users, proxies, delegates, items, claims, nextItemId, nextClaimId, nextProxyId, nextUserId, requests, session>>
       ELSE /\ proxies' = (proxies \ {proxy}) \cup
                 {[proxy EXCEPT !.email = IF TruthyText(email) THEN Lower(email) ELSE None]}
            /\ response' = Resp("edit_proxy_wishlist", "ok", "updated")
            /\ UNCHANGED <<users, delegates, items, claims, nextItemId, nextClaimId, nextProxyId, nextUserId, requests, session>>

\* items and claims of the other accounts, and the administrator using
\* every permission-guarded route on them
NextAdmin ==
    \/ \E u \in ListOwners, f \in EditInputs : add_item(u, f)
    \/ \E u \in GiftGivers, e \in NoEmail : create_proxy_wishlist(u, e)
    \/ \E u \in GiftGivers, p \in ProxyIds, f \in EditInputs : add_to_proxy_wishlist(u, p, f)
    \/ \E u \in AdminUsers, i \in ItemIds, f \in {FormBook} : edit_item(u, i, f)
    \/ \E u \in AdminUsers, i \in ItemIds : delete_item(u, i)
    \/ \E u \in AdminUsers, p \in ProxyIds, e \in ProxyEmailInputs \ NoEmail : edit_proxy_wishlist(u, p, e)
    \/ \E u \in AdminUsers, p \in ProxyIds, f \in EditInputs : delegate_add_item(u, p, f)
    \/ \E u \in AdminUsers, i \in ItemIds, f \in {FormBook} : delegate_edit_item(u, i, f)
    \/ \E u \in AdminUsers, i \in ItemIds : delegate_delete_item(u, i)
    \/ \E u \in AdminUsers, c \in ClaimIds : unclaim_item(u, c)
    \/ \E u \in AdminUsers, c \in ClaimIds, d \in {x \in StatusInputs : x.received = "absent"} :
          update_claim_status(u, c, d)

SpecAdmin == Init /\ [][NextAdmin]_vars

\* the permission-guarded requests of an administrator u on items and
\* proxy lists
AdminItemRequest(u) ==
    \/ \E i \in ItemIds, f \in {FormBook} : edit_item(u, i, f)
    \/ \E i \in ItemIds : delete_item(u, i)
    \/ \E p \in ProxyIds, e \in ProxyEmailInputs : edit_proxy_wishlist(u, p, e)
    \/ \E p \in ProxyIds, f \in EditInputs : delegate_add_item(u, p, f)
    \/ \E i \in {x \in ItemIds : Item(x).proxy_wishlist_id # NULL}, f \in {FormBook} :
          delegate_edit_item(u, i, f)
    \/ \E i \in {x \in ItemIds : Item(x).proxy_wishlist_id # NULL} :
          delegate_delete_item(u, i)

\* the requests of u on a claim c
ClaimRequest(u, c) ==
    \/ unclaim_item(u, c)
    \/ \E d \in StatusInputs : update_claim_status(u, c, d)

\* C21 as stated: an administrator is never denied by a permission check:
\* editing or deleting any item, editing any proxy list, the delegate routes
\* on any proxy list, withdrawing any claim and updating any claim's progress
\* flags are all carried out.
C21_AdminNeverDenied ==
    [][\A u \in AdminUsers :
         /\ AdminItemRequest(u) => response'.status = "ok"
         /\ \A c \in ClaimIds : ClaimRequest(u, c) => response'.status = "ok"]_vars

\* C21 as amended: an administrator is never denied on editing or deleting
\* any item, editing any proxy list or the delegate routes of any proxy
\* list; an administrator who asks to withdraw a claim of another account
\* or to update its flags is denied and the claim is left as it was.
C21_AdminNeverDeniedOnItemsAndLists ==
    [][\A u \in AdminUsers :
         /\ AdminItemRequest(u) => response'.status = "ok"
         /\ \A c \in ClaimIds :
               (Claim(c).purchased_by_id # u /\ ClaimRequest(u, c)) =>
                  response'.status = "denied" /\ claims' = claims]_vars

\* an administrator has just edited an item added by another account to a
\* proxy list created by another account, and holds no claim
C21_Witness ==
    /\ response.op = "edit_item"
    /\ response.status = "ok"
    /\ \E i \in items, p \in proxies :
          /\ i.proxy_wishlist_id = p.id
          /\ i.added_by_id \notin AdminUsers
          /\ p.created_by_id \notin AdminUsers
          /\ i.name = FormBook.name
    /\ \E c \in claims : c.purchased_by_id \notin AdminUsers

\* ------------------------------------------------ similar_items by itself
\* urls and names of the items compared
UrlInputs == {None, <<>>, <<"u">>, <<"u","/">>, <<"u","/","/">>, <<"U">>, <<"v">>}
NameInputs == {FormLego.name, FormLegos.name, FormBook.name}
CompareInputs == {[url |-> x, name |-> n] : x \in UrlInputs, n \in NameInputs}

\* the answer of one call: the two items, what Method 1 found and what the
\* function returned
Compared(op, item1, item2, threshold) ==
    [op |-> op,
     status |-> IF similar_items(item1, item2, threshold) THEN "similar" ELSE "different",
     flash |-> IF url_match(item1, item2) THEN "url_match" ELSE "no_url_match",
     shown |-> <<item1, item2>>]

\* the call of add_item and add_item_from_scraped_data:
\* similar_items(new_item, existing_item)
add_flow_similar(item1, item2) ==
    /\ response' = Compared("add_flow_similar", item1, item2, NameThresholdAdd)
    /\ UNCHANGED <<users, proxies, delegates, items, claims, nextItemId, nextClaimId, nextProxyId, nextUserId, requests, session>>

\* the call of register: similar_items(proxy_item, existing_item)
register_flow_similar(item1, item2) ==
    /\ response' = Compared("register_flow_similar", item1, item2, NameThresholdRegister)
    /\ UNCHANGED <<users, proxies, delegates, items, claims, nextItemId, nextClaimId, nextProxyId, nextUserId, requests, session>>

NextSimilar ==
    \/ \E a \in CompareInputs, b \in CompareInputs : add_flow_similar(a, b)
    \/ \E a \in CompareInputs, b \in CompareInputs : register_flow_similar(a, b)

SpecSimilar == Init /\ [][NextSimilar]_vars

\* a url without its last character when that is a slash
StripOneSlash(s) ==
    IF Len(s) > 0 /\ s[Len(s)] = "/" THEN SubSeq(s, 1, Len(s) - 1) ELSE s

\* t is s without its trailing slashes
WithoutTrailingSlashes(s, t) ==
    /\ Len(t) <= Len(s)
    /\ \A k \in 1..Len(s) : IF k <= Len(t) THEN s[k] = t[k] ELSE s[k] = "/"
    /\ (Len(t) > 0 => t[Len(t)] # "/")

SameUrlUpTo(strip(_), a, b) ==
    /\ TruthyText(a.url) /\ TruthyText(b.url)
    /\ strip(Lower(a.url)) = strip(Lower(b.url))

\* C22 as stated: the URL step is true exactly when both urls are non-empty
\* and equal after lower-casing and stripping a single trailing slash; it
\* gives the same answer for (a, b) and (b, a); and when it is true
\* similar_items returns true whatever the names.
C22_UrlStepStripsOneSlash ==
    response.op = "add_flow_similar" =>
       LET a == response.shown[1]
           b == response.shown[2]
       IN /\ (response.flash = "url_match") <=> SameUrlUpTo(StripOneSlash, a, b)
          /\ url_match(b, a) <=> (response.flash = "url_match")
          /\ response.flash = "url_match" => response.status = "similar"

\* C22 as amended: the URL step is true exactly when both urls are non-empty
\* and equal after lower-casing and stripping every trailing slash; it gives
\* the same answer for (a, b) and (b, a); and when it is true similar_items
\* returns true whatever the names.
C22_UrlStepStripsAllSlashes ==
    response.op = "add_flow_similar" =>
       LET a == response.shown[1]
           b == response.shown[2]
           SameCore ==
              /\ TruthyText(a.url) /\ TruthyText(b.url)
              /\ \E n \in 0..Len(a.url) :
                    LET t == SubSeq(Lower(a.url), 1, n)
                    IN /\ WithoutTrailingSlashes(Lower(a.url), t)
                       /\ WithoutTrailingSlashes(Lower(b.url), t)
       IN /\ (response.flash = "url_match") <=> SameCore
          /\ url_match(b, a) <=> (response.flash = "url_match")
          /\ response.flash = "url_match" => response.status = "similar"

\* two items whose urls differ in case and by one trailing slash and whose
\* names have nothing in common were found similar by the URL step
C22_Witness ==
    /\ response.op = "add_flow_similar"
    /\ response.flash = "url_match"
    /\ response.status = "similar"
    /\ response.shown[1].url = <<"u","/">>
    /\ response.shown[2].url = <<"U">>
    /\ response.shown[1].name = FormBook.name
    /\ response.shown[2].name = FormLego.name

\* the third method of similar_items: overlap of the significant words
WordOverlap(a, b) ==
    LET words1 == SignificantWords(a.name)
        words2 == SignificantWords(b.name)
    IN /\ words1 # {} /\ words2 # {}
       /\ 5 * Cardinality(words1 \cap words2) >= 2 * Cardinality(words1 \cup words2)
       /\ Cardinality(words1 \cap words2) >= 3

\* what similar_items answers when the name ratio is compared against pct
SimilarAt(pct, a, b) ==
    \/ url_match(a, b)
    \/ /\ TruthyText(a.name) /\ TruthyText(b.name)
       /\ RatioAtLeast(Lower(a.name), Lower(b.name), pct) \/ WordOverlap(a, b)

\* C23: the threshold of the name ratio is a parameter of similar_items and
\* the two call sites use different values: the add flow compares the ratio
\* against 0.75 and the registration-conversion flow against 0.9.
C23_CallSitesUseTheirThreshold ==
    /\ response.op = "add_flow_similar" =>
          ((response.status = "similar") <=> SimilarAt(75, response.shown[1], response.shown[2]))
    /\ response.op = "register_flow_similar" =>
          ((response.status = "similar") <=> SimilarAt(90, response.shown[1], response.shown[2]))

\* ------------------------------------------- quantity edits under claims
\* the forms and JSON bodies that change a quantity
QuantityForms == {FormLego}
QuantityInputs == {[keys |-> {"quantity"}, form |-> f] : f \in QuantityForms}

\* items of an account's list and of a proxy list, claims on them, and the
\* three routes that edit a quantity
NextQuantity ==
    \/ \E u \in ListOwners, f \in {FormBook} : add_item(u, f)
    \/ \E u \in AdminUsers, e \in NoEmail : create_proxy_wishlist(u, e)
    \/ \E u \in AdminUsers, p \in ProxyIds, f \in {FormBook} : delegate_add_item(u, p, f)
    \/ \E u \in GiftGivers, i \in ItemIds, q \in {1} : claim_item(u, i, q)
    \/ \E u \in ListOwners, i \in ItemIds, f \in QuantityForms : edit_item(u, i, f)
    \/ \E u \in ListOwners, i \in ItemIds, d \in QuantityInputs : update_item_quick(u, i, d)
    \/ \E u \in AdminUsers, i \in ItemIds, f \in QuantityForms : delegate_edit_item(u, i, f)

SpecQuantity == Init /\ [][NextQuantity]_vars

\* C24: edit_item, update_item_quick and delegate_edit_item never change, cap
\* or delete a claim, also when the new quantity is below the sum of the
\* claims on the item; and while that sum is at least the item's quantity
\* every claim attempt on the item is rejected.
C24_QuantityEditKeepsClaims ==
    [][/\ response'.op \in {"edit_item", "update_item_quick", "delegate_edit_item"} =>
             claims' = claims
       /\ response'.op = "claim_item" =>
             \A u \in GiftGivers, i \in ItemIds, q \in {1} :
                (total_purchased(claims, i) >= Item(i).quantity /\ claim_item(u, i, q)) =>
                   response'.status = "rejected" /\ claims' = claims]_vars

\* a quantity was edited below the sum of the claims, the claims are still
\* there, and a claim attempt on the item has just been rejected
C24_Witness ==
    /\ response.op = "claim_item"
    /\ response.status = "rejected"
    /\ \E i \in items :
          /\ total_purchased(claims, i.id) > i.quantity
          /\ Cardinality(purchases(items, claims, i.id)) >= 1

\* ------------------------------------------------------------ custom gifts
\* custom gifts on an account's list and on a proxy list, their adder
\* editing and unclaiming them, and another account trying to claim them
NextGift ==
    \/ \E u \in GiftGivers \cup ListOwners, t \in ListOwners, f \in FormInputs :
          add_custom_gift(u, t, f)
    \/ \E u \in AdminUsers, e \in NoEmail : create_proxy_wishlist(u, e)
    \/ \E u \in GiftGivers, p \in ProxyIds, f \in FormInputs : add_to_proxy_wishlist(u, p, f)
    \/ \E u \in AdminUsers, i \in ItemIds, q \in {1} : claim_item(u, i, q)
    \/ \E u \in GiftGivers, c \in ClaimIds : unclaim_item(u, c)
    \/ \E u \in GiftGivers, i \in ItemIds, f \in {FormBook} : edit_item(u, i, f)

SpecGift == Init /\ [][NextGift]_vars

\* this step added exactly one item, n, and exactly one claim, which is on n,
\* held by u and for n's whole quantity
AddedGiftWithClaim(u, user_id, proxy_id) ==
    \E n \in items' \ items :
       /\ items' = items \cup {n}
       /\ n.user_id = user_id /\ n.proxy_wishlist_id = proxy_id /\ n.added_by_id = u
       /\ \E c \in claims' \ claims :
             /\ claims' = claims \cup {c}
             /\ c.wishlist_item_id = n.id
             /\ c.purchased_by_id = u
             /\ c.quantity = n.quantity
       /\ is_fully_purchased(claims', n)

\* the adder of item i holds a claim on it
AdderHoldsClaim(i) ==
    \E c \in claims : c.wishlist_item_id = i /\ c.purchased_by_id = Item(i).added_by_id

CreationPart ==
    /\ response'.op = "add_custom_gift" =>
          \A u \in GiftGivers \cup ListOwners, t \in ListOwners :
             (\E f \in FormInputs : add_custom_gift(u, t, f)) =>
                IF u = t
                THEN response'.status = "denied" /\ items' = items /\ claims' = claims
                ELSE AddedGiftWithClaim(u, t, NULL)
    /\ response'.op = "add_to_proxy_wishlist" =>
          \A u \in GiftGivers, p \in ProxyIds :
             (\E f \in FormInputs : add_to_proxy_wishlist(u, p, f)) =>
                AddedGiftWithClaim(u, NULL, p)

\* C25 as stated: add_custom_gift and add_to_proxy_wishlist create, with the
\* item, exactly one claim on it, held by the adder and for the item's
\* quantity; no other account can claim the item until the adder unclaims;
\* and nobody adds a custom gift to their own list.
C25_GiftClaimedUntilUnclaimed ==
    [][/\ CreationPart
       /\ response'.op = "claim_item" =>
             \A u \in AdminUsers, i \in ItemIds :
                (AdderHoldsClaim(i) /\ Item(i).added_by_id # u /\ claim_item(u, i, 1)) =>
                   response'.status # "ok" /\ claims' = claims]_vars

\* C25 as amended: as above, but another account is kept from claiming the
\* item only while the adder's claim covers the item's quantity, that is
\* until the adder unclaims or an edit raises the quantity.
C25_GiftClaimedWhileCovered ==
    [][/\ CreationPart
       /\ response'.op = "claim_item" =>
             \A u \in AdminUsers, i \in ItemIds :
                (/\ \E c \in claims : /\ c.wishlist_item_id = i
                                      /\ c.purchased_by_id = Item(i).added_by_id
                                      /\ c.quantity >= Item(i).quantity
                 /\ Item(i).added_by_id # u
                 /\ claim_item(u, i, 1)) =>
                   response'.status = "rejected" /\ claims' = claims]_vars

\* a custom gift for more than one piece exists with its adder's claim for
\* the whole quantity, and another account's claim on it was just rejected
C25_Witness ==
    /\ response.op = "claim_item"
    /\ response.status = "rejected"
    /\ \E i \in items, c \in claims :
          /\ i.added_by_id \in GiftGivers
          /\ i.quantity > 1
          /\ c.wishlist_item_id = i.id
          /\ c.purchased_by_id = i.added_by_id
          /\ c.quantity = i.quantity

\* ------------------------------------------------- claims and claimants
\* claims of two accounts, and every account asking to withdraw them and to
\* update their flags
NextClaimant ==
    \/ \E u \in ListOwners, f \in FormInputs : add_item(u, f)
    \/ \E u \in GiftGivers \cup AdminUsers, i \in ItemIds, q \in {1} : claim_item(u, i, q)
    \/ \E u \in UserIds, c \in ClaimIds : unclaim_item(u, c)
    \/ \E u \in UserIds, c \in ClaimIds, d \in StatusInputs : update_claim_status(u, c, d)

SpecClaimant == Init /\ [][NextClaimant]_vars

\* after is before with exactly the flags that data supplies set to their
\* values
FlagsSetFrom(before, after, data) ==
    /\ after.id = before.id
    /\ after.wishlist_item_id = before.wishlist_item_id
    /\ after.purchased_by_id = before.purchased_by_id
    /\ after.quantity = before.quantity
    /\ after.purchased = IF data.purchased = "absent" THEN before.purchased
                         ELSE data.purchased = "true"
    /\ after.received = IF data.received = "absent" THEN before.received
                        ELSE data.received = "true"
    /\ after.wrapped = IF data.wrapped = "absent" THEN before.wrapped
                       ELSE data.wrapped = "true"

\* C26: unclaim_item and update_claim_status act only for the account that
\* created the claim: the claimant's request deletes exactly that claim
\* (sets exactly the flags supplied) and changes no other claim and no item;
\* a request by any other account is rejected and changes nothing.
C26_OnlyClaimantActsOnClaim ==
    [][/\ response'.op = "unclaim_item" =>
             \A u \in UserIds, c \in ClaimIds :
                unclaim_item(u, c) =>
                   /\ items' = items
                   /\ IF Claim(c).purchased_by_id = u
                      THEN response'.status = "ok" /\ claims' = claims \ {Claim(c)}
                      ELSE response'.status = "denied" /\ claims' = claims
       /\ response'.op = "update_claim_status" =>
             \A u \in UserIds, c \in ClaimIds, d \in StatusInputs :
                update_claim_status(u, c, d) =>
                   /\ items' = items
                   /\ IF Claim(c).purchased_by_id = u
                      THEN /\ response'.status = "ok"
                           /\ \E after \in claims' :
                                 /\ FlagsSetFrom(Claim(c), after, d)
                                 /\ claims' = (claims \ {Claim(c)}) \cup {after}
                      ELSE response'.status = "denied" /\ claims' = claims]_vars

\* the claimant has updated one flag of a claim whose other flags were set
\* before and are still set, while another account's claim stands untouched
C26_Witness ==
    /\ response.op = "update_claim_status"
    /\ response.status = "ok"
    /\ \E c \in claims, o \in claims :
          /\ c.purchased /\ c.received /\ c.wrapped
          /\ o.purchased_by_id # c.purchased_by_id
          /\ ~o.purchased /\ ~o.received

\* ------------------------------------- an admin merging a proxy list
\* merge_proxy_wishlist_to_user(proxy, user): the items of the proxy list go
\* to the account as in the registration-time conversion, an item similar to
\* one the account already has being merged into it
merge_proxy_wishlist_to_user(I, C, proxy, user_id) ==
    ConvertProxyItems(I, C,
                      {i.id : i \in {x \in I : x.proxy_wishlist_id = proxy.id}},
                      {i.id : i \in {x \in I : x.user_id = user_id}},
                      user_id)

\* POST /admin/proxy-wishlist/<proxy_id>/merge with a user selected
merge_proxy_wishlist(u, proxy_id, user_id) ==
    LET proxy == Proxy(proxy_id)
        m == merge_proxy_wishlist_to_user(items, claims, proxy, user_id)
    IN /\ User(u).is_admin
       /\ items' = m.items
       /\ claims' = m.claims
       /\ proxies' = proxies \ {proxy}
       /\ delegates' = {d \in delegates : d.proxy_wishlist_id # proxy.id}
       /\ response' = Resp("merge_proxy_wishlist", "ok", "merged")
       /\ UNCHANGED <<users, nextItemId, nextClaimId, nextProxyId, nextUserId, requests, session>>

\* claims, custom gifts, merges, a registration that converts a proxy list
\* and an admin merging a proxy list into an account
NextOwnership ==
    \/ \E u \in ListOwners, f \in EditInputs : add_item(u, f)
    \/ \E u \in GiftGivers, t \in ListOwners, f \in EditInputs : add_custom_gift(u, t, f)
    \/ \E u \in AdminUsers, e \in ProxyEmailInputs \ NoEmail : create_proxy_wishlist(u, e)
    \/ \E u \in GiftGivers, p \in ProxyIds, f \in EditInputs : add_to_proxy_wishlist(u, p, f)
    \/ \E u \in UserIds, i \in ItemIds, q \in {1} : claim_item(u, i, q)
    \/ \E u \in ListOwners, s \in ItemIds, t \in ItemIds : merge_items_manual(u, s, t)
    \/ \E e \in RegisterEmailInputs : register(e)
    \/ \E u \in AdminUsers, p \in ProxyIds, t \in UserIds : merge_proxy_wishlist(u, p, t)

SpecOwnership == Init /\ [][NextOwnership]_vars

FormBookPlain ==
    [name |-> FormBook.name, url |-> None, description |-> None,
     price |-> PriceNone, image_url |-> None, quantity |-> 1]
HiddenInputs == {FormBookPlain, FormLego}

\* custom gifts on the owner's list, their givers' claims, and the owner
\* adding items and opening the list
NextHidden ==
    \/ \E u \in GiftGivers, t \in ListOwners, f \in {FormBook, FormLegos} :
          add_custom_gift(u, t, f)
    \/ \E u \in GiftGivers, c \in ClaimIds : unclaim_item(u, c)
    \/ \E u \in GiftGivers, c \in ClaimIds, d \in StatusInputs : update_claim_status(u, c, d)
    \/ \E u \in ListOwners, f \in HiddenInputs : add_item(u, f)
    \/ \E u \in ListOwners, f \in HiddenInputs : add_item_from_scraped_data(u, f)
    \/ \E u \in ListOwners : my_list(u)

SpecHidden == Init /\ [][NextHidden]_vars

\* the rows without the custom gifts other accounts added to u's list
WithoutHiddenGifts(I, u) ==
    {i \in I : ~(i.user_id = u /\ i.added_by_id # NULL /\ i.added_by_id # u)}

\* what u observes of an outcome of the add flow: the response and the items
\* of the list that are shown to u, with their fields
OwnerObservation(o, u) ==
    [response |-> o.response, shown |-> OwnerFilter(o.items, u)]

\* the observation of the step just taken is one the same request gives on
\* the rows without the hidden gifts
SameAsWithoutGifts(op, u, f) ==
    OwnerObservation([items |-> items', claims |-> claims', response |-> response'], u)
       \in {OwnerObservation(o, u) :
               o \in AddOutcomes(WithoutHiddenGifts(items, u), claims, op, u, f, nextItemId)}

\* C28: what the owner observes after add_item or add_item_from_scraped_data
\* (the response and the fields of the items shown on the list) does not
\* depend on the hidden custom gifts of other accounts on the list.
C28_AddHidesCustomGifts ==
    [][\A u \in ListOwners, f \in HiddenInputs :
         /\ (response'.op = "add_item" /\ add_item(u, f)) =>
               SameAsWithoutGifts("add_item", u, f)
         /\ (response'.op = "add_item_from_scraped_data" /\ add_item_from_scraped_data(u, f)) =>
               SameAsWithoutGifts("add_item_from_scraped_data", u, f)]_vars

current_user ==
    IF session.user_id = NULL THEN NULL
    ELSE IF session.impersonate_user_id # NULL THEN session.impersonate_user_id
    ELSE session.user_id

\* login_user(user) at the end of a login, by a visitor who is not logged in
login(u) ==
    /\ current_user = NULL
    /\ session' = [session EXCEPT !.user_id = u]
    /\ response' = Resp("login", "ok", "welcome")
    /\ UNCHANGED <<users, proxies, delegates, items, claims, nextItemId, nextClaimId, nextProxyId, nextUserId, requests>>

\* GET /admin/user/<user_id>/impersonate, behind login_required and
\* admin_required
impersonate(user_id) ==
    /\ current_user # NULL
    /\ IF ~User(current_user).is_admin
       THEN /\ response' = Resp("impersonate", "denied", "must_be_admin")
            /\ UNCHANGED session
       ELSE IF user_id = current_user
       THEN /\ response' = Resp("impersonate", "rejected", "cannot_impersonate_self")
            /\ UNCHANGED session
       ELSE /\ session' = [session EXCEPT !.original_admin_id = current_user,
                                          !.impersonate_user_id = user_id]
            /\ response' = Resp("impersonate", "ok", "now_impersonating")
    /\ UNCHANGED <<users, proxies, delegates, items, claims, nextItemId, nextClaimId, nextProxyId, nextUserId, requests>>

\* GET /admin/stop-impersonate, behind login_required.  With
\* 'original_admin_id' in the session both keys are popped; the second pop
\* has no default and raises KeyError when 'impersonate_user_id' is absent:
\* the request ends with an error, and the session is stored with the first
\* key popped or left as it was, by how the server handles the exception
stop_impersonate ==
    /\ current_user # NULL
    /\ IF session.original_admin_id = NULL
       THEN /\ response' = Resp("stop_impersonate", "ok", "nothing_to_stop")
            /\ UNCHANGED session
       ELSE IF session.impersonate_user_id = NULL
       THEN /\ response' = Resp("stop_impersonate", "error", "KeyError")
            /\ session' \in {session, [session EXCEPT !.original_admin_id = NULL]}
       ELSE /\ session' = [session EXCEPT !.original_admin_id = NULL,
                                          !.impersonate_user_id = NULL]
            /\ response' = Resp("stop_impersonate", "ok", "stopped")
    /\ UNCHANGED <<users, proxies, delegates, items, claims, nextItemId, nextClaimId, nextProxyId, nextUserId, requests>>

\* GET /auth/logout: an impersonation is ended by popping its key, otherwise
\* logout_user() pops '_user_id'
logout ==
    /\ IF session.impersonate_user_id # NULL
       THEN /\ session' = [session EXCEPT !.impersonate_user_id = NULL]
            /\ response' = Resp("logout", "ok", "stopped")
       ELSE /\ session' = [session EXCEPT !.user_id = NULL]
            /\ response' = Resp("logout", "ok", "logged_out")
    /\ UNCHANGED <<users, proxies, delegates, items, claims, nextItemId, nextClaimId, nextProxyId, nextUserId, requests>>

\* POST /wishlist/add by the account the session stands for
add_item_as_current_user(f) ==
    /\ current_user # NULL
    /\ add_item(current_user, f)

\* one browser session: logins, impersonations, logouts, and items added by
\* whoever the session stands for
NextSession ==
    \/ \E u \in UserIds : login(u)
    \/ \E t \in UserIds : impersonate(t)
    \/ stop_impersonate
    \/ logout
    \/ \E f \in FormInputs : add_item_as_current_user(f)

SpecSession == Init /\ [][NextSession]_vars

\* C30: after any sequence of impersonate, logout and stop_impersonate in
\* one session the keys original_admin_id and impersonate_user_id are both
\* present or both absent; stop_impersonate always completes without error,
\* and after it the session stands for the admin who is logged in.
C30_ImpersonationKeysPaired ==
    /\ (session.original_admin_id = NULL) <=> (session.impersonate_user_id = NULL)
    /\ response.op = "stop_impersonate" =>
          /\ response.status = "ok"
          /\ current_user = session.user_id

\* every request
Next ==
    \/ NextCore \/ NextMerge \/ NextLists \/ NextOwnerView
    \/ NextOwnerClaims \/ NextModify \/ NextDelegate \/ NextDelegateView
    \/ NextFill \/ NextConvert \/ NextShape \/ NextAutoMerge
    \/ NextRaceClaims \/ NextRaceMerge \/ NextViewer \/ NextAdmin
    \/ NextSimilar \/ NextQuantity \/ NextGift \/ NextClaimant
    \/ NextOwnership \/ NextHidden \/ NextSession

Spec == Init /\ [][Next]_vars

====
